---- MODULE Spec2Model ----
(***************************************************************************)
(* Particle lifecycle of the Hawking-radiation visualisation (main.js).    *)
(*                                                                         *)
(* Fixed point units used throughout:                                      *)
(*   lengths and bhMesh.scale.x   1/100 of a scene unit                    *)
(*   velocities                   1/100 of a scene unit per second         *)
(*   times, ages, lifetimes, dt   milliseconds                             *)
(*   masses                       1/10000 of a solar mass                  *)
(*   spawnAccumulator             1/10000 of a pair                        *)
(*   uniform draws, gamma sample  1/100                                    *)
(***************************************************************************)
EXTENDS Integers, Sequences, FiniteSets, TLC

VARIABLES
  pc,                 \* "setup" until initializeParticles has run, then "run"
  MAX_PARTICLES,      \* main.js:653
  positions,          \* main.js:657  [0..N-1 -> <<x,y,z>>]
  velocities,         \* main.js:657
  lifetimes,          \* main.js:657
  ages,               \* main.js:657
  temps,              \* main.js:657
  species,            \* main.js:657
  needsBufferUpdate,  \* main.js:805
  spawnAccumulator,   \* main.js:804
  paused,             \* main.js:76
  BH_Mass_solar,      \* main.js:798
  bhScale,            \* bhMesh.scale.x, set by updateBHScale
  scaleJobs,          \* updateBHScale calls awaiting their metrics
  maxParticlesValue,  \* the capacity control (maxParticles.value)
  pairRateValue,      \* the rate knob (pairRate.value), 1/100
  useAPI,             \* main.js:10
  useQuantumPairGeneration, \* main.js:11
  lastSpawnTime,      \* main.js:23, -1 or ms
  now,                \* performance.now() of the current frame, ms
  inflight,           \* spawnParticles invocations suspended at an await
  isEvaporating,      \* main.js:82
  isInstantEvaporating, \* main.js:83
  lastEvaporationTime,  \* main.js:85
  rafQueue,           \* evaporation callbacks registered for the next frame
  frameQueue,         \* callbacks of the current frame still to run
  events,             \* control events handled so far
  op                  \* the operation performed by the last step

vars == <<pc, MAX_PARTICLES, positions, velocities, lifetimes, ages, temps,
          species, needsBufferUpdate, spawnAccumulator, paused, BH_Mass_solar,
          bhScale, scaleJobs, maxParticlesValue, pairRateValue, useAPI,
          useQuantumPairGeneration, lastSpawnTime, now, inflight,
          isEvaporating, isInstantEvaporating, lastEvaporationTime,
          rafQueue, frameQueue, events, op>>

-----------------------------------------------------------------------------
(* Bounds of the model *)

MaxCap == 4          \* largest value of the capacity control
MaxNow == 60         \* frames are started while now <= MaxNow
MaxInFlight == 2     \* suspended spawnParticles invocations
MaxScaleJobs == 1    \* suspended updateBHScale calls
MaxRaf == 2          \* evaporation callbacks registered at once
MaxEvents == 2       \* control events (clicks, slider moves) in one run

-----------------------------------------------------------------------------
(* Program constants *)

SENTINEL == 9999900          \* 99999 scene units
DEAD_AGE == 1000000000       \* 1e9 written by allocBuffers and reset
DT_CLAMP == 50               \* 0.05 s
POS_LIMIT == 10000000        \* 1e5 scene units
MIN_SPAWN_INTERVAL == 100    \* 0.1 s
BASE_LIFE == 8000            \* baseLife = 8.0 s
ACC_ONE == 10000             \* one pair in spawnAccumulator units
MASS_ONE == 10000            \* one solar mass
CACHE_DURATION == 100  \* ms a cached API result is used for (main.js:17)
MASS_DONE == 10              \* 0.001 solar masses

-----------------------------------------------------------------------------
(* Arithmetic helpers *)

Min(a, b) == IF a <= b THEN a ELSE b
Max(a, b) == IF a >= b THEN a ELSE b
Abs(a) == IF a < 0 THEN -a ELSE a

\* division rounding toward zero, as a stand-in for the float quotient
DivT(a, b) ==
  IF b = 0 THEN 0
  ELSE LET q == Abs(a) \div Abs(b)
       IN IF (a < 0) = (b < 0) THEN q ELSE -q

RECURSIVE SqrtIter(_, _, _)
SqrtIter(n, lo, hi) ==
  IF lo >= hi THEN lo
  ELSE LET mid == (lo + hi + 1) \div 2
       IN IF mid * mid <= n THEN SqrtIter(n, mid, hi)
          ELSE SqrtIter(n, lo, mid - 1)

\* floor of Math.sqrt
ISqrt(n) == IF n <= 0 THEN 0 ELSE SqrtIter(n, 0, Min(n, 46340))

Norm2(p) == p[1] * p[1] + p[2] * p[2] + p[3] * p[3]
Length(p) == ISqrt(Norm2(p))

\* THREE.Vector3.normalize, result scaled by 100
Normalize(p) ==
  LET l == Length(p)
  IN IF l = 0 THEN <<0, 0, 0>>
     ELSE <<DivT(p[1] * 100, l), DivT(p[2] * 100, l), DivT(p[3] * 100, l)>>

Scale(p, num, den) ==
  <<DivT(p[1] * num, den), DivT(p[2] * num, den), DivT(p[3] * num, den)>>

Add(p, q) == <<p[1] + q[1], p[2] + q[2], p[3] + q[3]>>

ZERO3 == <<0, 0, 0>>
SENTINEL3 == <<SENTINEL, SENTINEL, SENTINEL>>

\* quotient rounded away from zero
DivAway(a, b) ==
  IF b = 0 THEN 0
  ELSE LET q == (Abs(a) + Abs(b) - 1) \div Abs(b)
       IN IF (a < 0) = (b < 0) THEN q ELSE -q

-----------------------------------------------------------------------------
(* The particle store: the typed arrays of main.js:657 as one record *)

Store == [positions |-> positions, velocities |-> velocities,
          lifetimes |-> lifetimes, ages |-> ages, temps |-> temps,
          species |-> species]

Slots(st) == DOMAIN st.ages

\* the free test every scan uses: ages[i] >= lifetimes[i]
IsFree(st, i) == i \in Slots(st) /\ st.ages[i] >= st.lifetimes[i]
IsLive(st, i) == i \in Slots(st) /\ st.ages[i] < st.lifetimes[i]

\* variant: the arrays are allocated one entry short
allocBuffersShort(N) ==
  LET idx == 0 .. (N - 2)
  IN [positions |-> [i \in idx |-> SENTINEL3],
      velocities |-> [i \in idx |-> ZERO3],
      lifetimes |-> [i \in idx |-> 0],
      ages |-> [i \in idx |-> DEAD_AGE],
      temps |-> [i \in idx |-> <<"K", 0>>],
      species |-> [i \in idx |-> 0]]

\* variant: the loop that marks every slot dead is left out, the typed
\* arrays stay zero-filled
allocBuffersNoFill(N) ==
  LET idx == 0 .. (N - 1)
  IN [positions |-> [i \in idx |-> ZERO3],
      velocities |-> [i \in idx |-> ZERO3],
      lifetimes |-> [i \in idx |-> 0],
      ages |-> [i \in idx |-> 0],
      temps |-> [i \in idx |-> <<"K", 0>>],
      species |-> [i \in idx |-> 0]]

\* allocBuffers(N): new arrays, every slot dead (main.js:673-692)
allocBuffers(N) ==
  LET idx == 0 .. (N - 1)
  IN [positions |-> [i \in idx |-> SENTINEL3],
      velocities |-> [i \in idx |-> ZERO3],
      lifetimes |-> [i \in idx |-> 0],
      ages |-> [i \in idx |-> DEAD_AGE],
      temps |-> [i \in idx |-> <<"K", 0>>],
      species |-> [i \in idx |-> 0]]

\* variant: the loop stops one slot early
ResetStoreSkipsLast(st, N) ==
  LET hit(i) == i < N - 1
  IN [positions |-> [i \in Slots(st) |-> IF hit(i) THEN SENTINEL3 ELSE st.positions[i]],
      velocities |-> [i \in Slots(st) |-> IF hit(i) THEN ZERO3 ELSE st.velocities[i]],
      lifetimes |-> [i \in Slots(st) |-> IF hit(i) THEN 0 ELSE st.lifetimes[i]],
      ages |-> [i \in Slots(st) |-> IF hit(i) THEN DEAD_AGE ELSE st.ages[i]],
      temps |-> [i \in Slots(st) |-> IF hit(i) THEN <<"K", 0>> ELSE st.temps[i]],
      species |-> [i \in Slots(st) |-> IF hit(i) THEN 0 ELSE st.species[i]]]

\* the reset button's loop over 0..MAX_PARTICLES-1 (main.js:1486-1499)
ResetStore(st, N) ==
  LET hit(i) == i < N
  IN [positions |-> [i \in Slots(st) |-> IF hit(i) THEN SENTINEL3 ELSE st.positions[i]],
      velocities |-> [i \in Slots(st) |-> IF hit(i) THEN ZERO3 ELSE st.velocities[i]],
      lifetimes |-> [i \in Slots(st) |-> IF hit(i) THEN 0 ELSE st.lifetimes[i]],
      ages |-> [i \in Slots(st) |-> IF hit(i) THEN DEAD_AGE ELSE st.ages[i]],
      temps |-> [i \in Slots(st) |-> IF hit(i) THEN <<"K", 0>> ELSE st.temps[i]],
      species |-> [i \in Slots(st) |-> IF hit(i) THEN 0 ELSE st.species[i]]]

-----------------------------------------------------------------------------
(* Emission samples *)

\* normSpecies (main.js:965-971): weights w = <<a, b, c>>, result <<a, b, s>>
\* standing for the fractions a/s, b/s
normSpecies(w) ==
  LET s == w[1] + w[2] + w[3]
  IN IF s <= 0 THEN <<1, 0, 1>> ELSE <<w[1], w[2], s>>

\* variant: the second threshold is fn alone instead of fp + fn
ChooseSpeciesNoSum(w, u) ==
  LET n == normSpecies(w)
  IN IF u * n[3] < 100 * n[1] THEN 0
     ELSE IF u * n[3] < 100 * n[2] THEN 1
     ELSE 2

\* the species chosen for the uniform draw u (1/100), main.js:977-979
ChooseSpecies(w, u) ==
  LET n == normSpecies(w)
  IN IF u * n[3] < 100 * n[1] THEN 0
     ELSE IF u * n[3] < 100 * (n[1] + n[2]) THEN 1
     ELSE 2

\* life = baseLife / sqrt(x*0.8+0.2), times 1.6 or 1.3 (main.js:998-1001)
LifeOf(x, sp) ==
  LET base == DivT(BASE_LIFE * 1000, ISqrt((80 * x + 2000) * 100))
  IN IF sp = 1 THEN DivT(base * 16, 10)
     ELSE IF sp = 2 THEN DivT(base * 13, 10)
     ELSE base

\* vmag = 0.8 + 2.2*min(1, x/4) (main.js:1016)
VmagOf(x) == 80 + DivT(220 * Min(400, x), 400)

\* r0 = rsVisual * (1.01 + U*0.08) (main.js:1005)
SpawnRadius(rs, U) == DivAway(rs * (10100 + 8 * U), 10000)

\* variant: the second particle is written one slot after index2
spawnParticlePairOffByOne(st, index1, index2, tempK, rs, w, d) ==
  LET sp == ChooseSpecies(w, d.u)
      life == LifeOf(d.x, sp)
      spawnPos == Scale(d.dir, SpawnRadius(rs, d.U), 100)
      dirFromBH == Normalize(spawnPos)
      vmag == VmagOf(d.x)
      j == IF index2 + 1 \in Slots(st) THEN index2 + 1 ELSE index2
      s1 == [st EXCEPT !.species[index1] = sp,
                       !.positions[index1] = spawnPos,
                       !.velocities[index1] = Scale(dirFromBH, -(vmag * 7), 1000),
                       !.lifetimes[index1] = DivT(life * 3, 10),
                       !.ages[index1] = 0,
                       !.temps[index1] = tempK]
  IN [s1 EXCEPT !.species[j] = sp,
                !.positions[j] = spawnPos,
                !.velocities[j] = Add(Scale(dirFromBH, vmag, 100), d.jitter),
                !.lifetimes[j] = life,
                !.ages[j] = 0,
                !.temps[j] = tempK]

\* variant: the inward particle is given the outward particle's lifetime
spawnParticlePairSameLife(st, index1, index2, tempK, rs, w, d) ==
  LET sp == ChooseSpecies(w, d.u)
      life == LifeOf(d.x, sp)
      spawnPos == Scale(d.dir, SpawnRadius(rs, d.U), 100)
      dirFromBH == Normalize(spawnPos)
      vmag == VmagOf(d.x)
      s1 == [st EXCEPT !.species[index1] = sp,
                       !.positions[index1] = spawnPos,
                       !.velocities[index1] = Scale(dirFromBH, -(vmag * 7), 1000),
                       !.lifetimes[index1] = life,
                       !.ages[index1] = 0,
                       !.temps[index1] = tempK]
  IN [s1 EXCEPT !.species[index2] = sp,
                !.positions[index2] = spawnPos,
                !.velocities[index2] = Add(Scale(dirFromBH, vmag, 100), d.jitter),
                !.lifetimes[index2] = life,
                !.ages[index2] = 0,
                !.temps[index2] = tempK]

\* spawnParticlePair (main.js:974-1062); d holds the Math.random outcomes
spawnParticlePair(st, index1, index2, tempK, rs, w, d) ==
  LET sp == ChooseSpecies(w, d.u)
      life == LifeOf(d.x, sp)
      r0 == SpawnRadius(rs, d.U)
      spawnPos == Scale(d.dir, r0, 100)
      dirFromBH == Normalize(spawnPos)
      vmag == VmagOf(d.x)
      velInward == Scale(dirFromBH, -(vmag * 7), 1000)
      velOutward == Add(Scale(dirFromBH, vmag, 100), d.jitter)
      s1 == [st EXCEPT !.species[index1] = sp,
                       !.positions[index1] = spawnPos,
                       !.velocities[index1] = velInward,
                       !.lifetimes[index1] = DivT(life * 3, 10),
                       !.ages[index1] = 0,
                       !.temps[index1] = tempK]
  IN [s1 EXCEPT !.species[index2] = sp,
                !.positions[index2] = spawnPos,
                !.velocities[index2] = velOutward,
                !.lifetimes[index2] = life,
                !.ages[index2] = 0,
                !.temps[index2] = tempK]

-----------------------------------------------------------------------------
(* Integrator *)

\* a position so far out that its squared norm is not computed; the pull
\* there is below one velocity unit per step
FAR == 20000
IsFar(p) == Abs(p[1]) > FAR \/ Abs(p[2]) > FAR \/ Abs(p[3]) > FAR

\* Math.abs(x) > 1e5 on some axis (main.js:1364)
OutOfRange(p) ==
  Abs(p[1]) > POS_LIMIT \/ Abs(p[2]) > POS_LIMIT \/ Abs(p[3]) > POS_LIMIT

\* newR < rsVisual * 1.01 (main.js:1402-1403): |p|^2 * 10000 below
\* (101 rs)^2, computed through the quotient to stay within the integers
InsideHorizon(p, rs) ==
  /\ rs > 0
  /\ ~IsFar(p)
  /\ Norm2(p) <= ((rs * 101) * (rs * 101) - 1) \div 10000

\* variant: the step is clamped to one 60 Hz frame
ClampDtFrame(dt) == Min(dt, 16)

\* variant: dt is used as it comes
ClampDtNone(dt) == dt

\* clampedDt (main.js:1345)
ClampDt(dt) == Min(dt, DT_CLAMP)

Damp(v, sp) ==
  IF sp = 0 THEN Scale(v, 998, 1000)
  ELSE IF sp = 1 THEN Scale(v, 9995, 10000)
  ELSE Scale(v, 999, 1000)

\* variant: only expiry frees a slot, the horizon is not tested
StepSlotExpiryOnly(st, i, dt, rs) ==
  LET p == st.positions[i]
      cdt == ClampDt(dt)
      r2 == IF IsFar(p) THEN 0 ELSE Norm2(p)
      r == ISqrt(r2)
      accMag == IF IsFar(p) THEN 0
                ELSE -DivT(40000 * rs, r2 + DivT(4 * rs * rs, 10) + 400)
      acc == <<DivT(accMag * p[1], r), DivT(accMag * p[2], r), DivT(accMag * p[3], r)>>
      v2 == Damp(Add(st.velocities[i], Scale(acc, cdt, 1000)), st.species[i])
      p2 == Add(p, Scale(v2, cdt, 1000))
      age2 == st.ages[i] + cdt
  IN IF age2 >= st.lifetimes[i]
     THEN [pos |-> SENTINEL3, vel |-> ZERO3, age |-> st.lifetimes[i]]
     ELSE [pos |-> p2, vel |-> v2, age |-> age2]

\* variant: a freed slot keeps the position and velocity of the step
StepSlotKeepsPlace(st, i, dt, rs) ==
  LET p == st.positions[i]
      cdt == ClampDt(dt)
      r2 == IF IsFar(p) THEN 0 ELSE Norm2(p)
      r == ISqrt(r2)
      accMag == IF IsFar(p) THEN 0
                ELSE -DivT(40000 * rs, r2 + DivT(4 * rs * rs, 10) + 400)
      acc == <<DivT(accMag * p[1], r), DivT(accMag * p[2], r), DivT(accMag * p[3], r)>>
      v2 == Damp(Add(st.velocities[i], Scale(acc, cdt, 1000)), st.species[i])
      p2 == Add(p, Scale(v2, cdt, 1000))
      age2 == st.ages[i] + cdt
      gone == InsideHorizon(p2, rs) \/ age2 >= st.lifetimes[i]
  IN [pos |-> p2, vel |-> v2, age |-> IF gone THEN st.lifetimes[i] ELSE age2]

\* one pass of the loop body of updateParticles for slot i (main.js:1356-1410):
\* the slot's new fields
StepSlot(st, i, dt, rs) ==
  LET p == st.positions[i]
      cdt == ClampDt(dt)
      r2 == IF IsFar(p) THEN 0 ELSE Norm2(p)
      r == ISqrt(r2)
      accMag == IF IsFar(p) THEN 0
                ELSE -DivT(40000 * rs, r2 + DivT(4 * rs * rs, 10) + 400)
      acc == <<DivT(accMag * p[1], r), DivT(accMag * p[2], r), DivT(accMag * p[3], r)>>
      v1 == Add(st.velocities[i], Scale(acc, cdt, 1000))
      v2 == Damp(v1, st.species[i])
      p2 == Add(p, Scale(v2, cdt, 1000))
      age2 == st.ages[i] + cdt
      gone == InsideHorizon(p2, rs) \/ age2 >= st.lifetimes[i]
  IN IF gone
     THEN [pos |-> SENTINEL3, vel |-> ZERO3, age |-> st.lifetimes[i]]
     ELSE [pos |-> p2, vel |-> v2, age |-> age2]

\* slots the loop processes: live and within range
Processed(st, N, i) ==
  i < N /\ ~IsFree(st, i) /\ ~OutOfRange(st.positions[i])

\* variant: the loop runs only when no spawnParticles invocation is suspended
updateParticlesAfterRequests(st, N, dt, rs) ==
  LET nxt(i) == StepSlot(st, i, dt, rs)
      run(i) == Processed(st, N, i) /\ inflight = <<>>
  IN [st EXCEPT
        !.positions = [i \in Slots(st) |->
                         IF run(i) THEN nxt(i).pos ELSE st.positions[i]],
        !.velocities = [i \in Slots(st) |->
                         IF run(i) THEN nxt(i).vel ELSE st.velocities[i]],
        !.ages = [i \in Slots(st) |->
                         IF run(i) THEN nxt(i).age ELSE st.ages[i]]]

\* updateParticles (main.js:1343-1416)
updateParticles(st, N, dt, rs) ==
  LET nxt(i) == StepSlot(st, i, dt, rs)
  IN [st EXCEPT
        !.positions = [i \in Slots(st) |->
                         IF Processed(st, N, i) THEN nxt(i).pos ELSE st.positions[i]],
        !.velocities = [i \in Slots(st) |->
                         IF Processed(st, N, i) THEN nxt(i).vel ELSE st.velocities[i]],
        !.ages = [i \in Slots(st) |->
                         IF Processed(st, N, i) THEN nxt(i).age ELSE st.ages[i]]]

\* hasUpdates (main.js:1351, 1410)
HasUpdates(st, N) == \E i \in Slots(st) : Processed(st, N, i)

-----------------------------------------------------------------------------
(* Spawn loops.  Each returns [st, pairs]: the new store and, for every    *)
(* pair written, <<index1, index2, ok>> where ok records that the two      *)
(* indices were distinct, in range and free when the pair was written.     *)

CallOk(st, N, i1, i2) ==
  /\ i1 # i2
  /\ i1 \in 0 .. (N - 1) /\ i2 \in 0 .. (N - 1)
  /\ IsFree(st, i1) /\ IsFree(st, i2)

\* what the evaporation effects do to a pair after spawning it
\*   "plain"     nothing                        (main.js:767, 1821)
\*   "massive"   velocities times 3             (main.js:1970-1980)
\*   "explosion" speed 15, lifetime 10 s        (main.js:1852-1879)
\*   "big"       speed 30, lifetime 15 s        (main.js:2036-2063)
AfterSpawn(st, kind, i1, i2, d) ==
  IF kind = "massive"
  THEN [st EXCEPT !.velocities[i1] = Scale(@, 3, 1),
                  !.velocities[i2] = Scale(@, 3, 1)]
  ELSE IF kind = "explosion"
  THEN [st EXCEPT !.velocities[i1] = Scale(d.edir1, 1500, 100),
                  !.velocities[i2] = Scale(d.edir2, 1500, 100),
                  !.lifetimes[i1] = 10000,
                  !.lifetimes[i2] = 10000]
  ELSE IF kind = "big"
  THEN [st EXCEPT !.velocities[i1] = Scale(d.edir1, 3000, 100),
                  !.velocities[i2] = Scale(d.edir2, 3000, 100),
                  !.lifetimes[i1] = 15000,
                  !.lifetimes[i2] = 15000]
  ELSE st

\* the scan shared by initializeParticles, spawnAdditionalParticles,
\* spawnMassiveParticles, createExplosionEffect and createMassiveExplosion:
\*   for (i = 0; i < MAX_PARTICLES && spawned < limit; i++)
\*     if (ages[i] >= lifetimes[i]) { first index, or second index and spawn }
RECURSIVE PairScan(_, _, _, _, _, _, _, _)
PairScan(st, N, i, idx1, pairs, limit, ds, cx) ==
  IF ~(i < N /\ Len(pairs) < limit) THEN [st |-> st, pairs |-> pairs]
  ELSE IF IsFree(st, i)
  THEN IF idx1 = -1
       THEN PairScan(st, N, i + 1, i, pairs, limit, ds, cx)
       ELSE LET d == ds[Len(pairs) + 1]
                s1 == spawnParticlePair(st, idx1, i, cx.tempK, cx.rs, cx.w, d)
                s2 == AfterSpawn(s1, cx.kind, idx1, i, d)
            IN PairScan(s2, N, i + 1, -1,
                        Append(pairs, <<idx1, i, CallOk(st, N, idx1, i)>>),
                        limit, ds, cx)
  ELSE PairScan(st, N, i + 1, idx1, pairs, limit, ds, cx)

\* variant: the scan runs from the highest index down
RECURSIVE DeadIndicesFromTop(_, _, _, _, _)
DeadIndicesFromTop(st, N, k, acc, want) ==
  IF ~(k < N) THEN acc
  ELSE IF IsFree(st, N - 1 - k)
  THEN IF Len(acc) + 1 >= want THEN Append(acc, N - 1 - k)
       ELSE DeadIndicesFromTop(st, N, k + 1, Append(acc, N - 1 - k), want)
  ELSE DeadIndicesFromTop(st, N, k + 1, acc, want)

\* variant: the scan collects indices without testing that they are free
RECURSIVE DeadIndicesAny(_, _, _, _, _)
DeadIndicesAny(st, N, k, acc, want) ==
  IF ~(k < N) THEN acc
  ELSE IF Len(acc) + 1 >= want THEN Append(acc, k)
  ELSE DeadIndicesAny(st, N, k + 1, Append(acc, k), want)

\* deadIndices of spawnParticles (main.js:1175-1181, 1318-1324): the free
\* indices in ascending order, the scan stopping once `want` are collected
RECURSIVE DeadIndices(_, _, _, _, _)
DeadIndices(st, N, k, acc, want) ==
  IF ~(k < N) THEN acc
  ELSE IF IsFree(st, k)
  THEN IF Len(acc) + 1 >= want THEN Append(acc, k)
       ELSE DeadIndices(st, N, k + 1, Append(acc, k), want)
  ELSE DeadIndices(st, N, k + 1, acc, want)

\* the local path's loop over pairsToCreate (main.js:1327-1334)
RECURSIVE LocalPairs(_, _, _, _, _, _, _, _)
LocalPairs(st, N, dead, p, pairsToCreate, pairs, ds, cx) ==
  IF ~(p < pairsToCreate) THEN [st |-> st, pairs |-> pairs]
  ELSE LET idx1 == dead[p * 2 + 1]
           idx2 == dead[p * 2 + 2]
           s1 == spawnParticlePair(st, idx1, idx2, cx.tempK, cx.rs, cx.w, ds[p + 1])
       IN LocalPairs(s1, N, dead, p + 1, pairsToCreate,
                     Append(pairs, <<idx1, idx2, CallOk(st, N, idx1, idx2)>>), ds, cx)

\* pairsToCreate = min(pairsToSpawn, floor(deadIndices.length / 2))
\* (main.js:1326)
PairsToCreate(dead, pairsToSpawn) == Min(pairsToSpawn, Len(dead) \div 2)

LocalSpawn(st, N, pairsToSpawn, ds, cx) ==
  LET dead == DeadIndices(st, N, 0, <<>>, pairsToSpawn * 2)
  IN LocalPairs(st, N, dead, 0, PairsToCreate(dead, pairsToSpawn), <<>>, ds, cx)

\* variant: the second particle's age is left as it was
OraclePairWritePartial(st, idx1, idx2, temp, rs, part, d) ==
  LET sp == part.sp
      life == LifeOf(part.x, sp)
      spawnPos == Scale(d.dir, SpawnRadius(rs, d.U), 100)
      dirFromBH == Normalize(spawnPos)
      s1 == [st EXCEPT !.species[idx1] = sp,
                       !.positions[idx1] = spawnPos,
                       !.velocities[idx1] = Scale(dirFromBH, -(Length(part.vel) * 7), 1000),
                       !.lifetimes[idx1] = DivT(life * 3, 10),
                       !.ages[idx1] = 0,
                       !.temps[idx1] = temp]
  IN [s1 EXCEPT !.species[idx2] = sp,
                !.positions[idx2] = spawnPos,
                !.velocities[idx2] = part.vel,
                !.lifetimes[idx2] = life,
                !.temps[idx2] = temp]

\* the oracle path writes the pair inline (main.js:1192-1274): species and
\* energy come from the response, the outward velocity is the response's
\* vector, the inward one is dirFromBH * (-|velVec| * 0.7)
OraclePairWrite(st, idx1, idx2, temp, rs, part, d) ==
  LET sp == part.sp
      life == LifeOf(part.x, sp)
      r0 == SpawnRadius(rs, d.U)
      spawnPos == Scale(d.dir, r0, 100)
      dirFromBH == Normalize(spawnPos)
      velInward == Scale(dirFromBH, -(Length(part.vel) * 7), 1000)
      s1 == [st EXCEPT !.species[idx1] = sp,
                       !.positions[idx1] = spawnPos,
                       !.velocities[idx1] = velInward,
                       !.lifetimes[idx1] = DivT(life * 3, 10),
                       !.ages[idx1] = 0,
                       !.temps[idx1] = temp]
  IN [s1 EXCEPT !.species[idx2] = sp,
                !.positions[idx2] = spawnPos,
                !.velocities[idx2] = part.vel,
                !.lifetimes[idx2] = life,
                !.ages[idx2] = 0,
                !.temps[idx2] = temp]

RECURSIVE OraclePairs(_, _, _, _, _, _, _, _)
OraclePairs(st, N, dead, p, pairsToCreate, pairs, parts, cx) ==
  IF ~(p < pairsToCreate) THEN [st |-> st, pairs |-> pairs]
  ELSE LET idx1 == dead[p * 2 + 1]
           idx2 == dead[p * 2 + 2]
           s1 == OraclePairWrite(st, idx1, idx2, cx.tempK, cx.rs, parts[p + 1], cx.ds[p + 1])
       IN OraclePairs(s1, N, dead, p + 1, pairsToCreate,
                      Append(pairs, <<idx1, idx2, CallOk(st, N, idx1, idx2)>>), parts, cx)

OracleSpawn(st, N, parts, cx) ==
  LET dead == DeadIndices(st, N, 0, <<>>, Len(parts) * 2)
  IN OraclePairs(st, N, dead, 0, Min(Len(parts), Len(dead) \div 2), <<>>, parts, cx)

-----------------------------------------------------------------------------
(* Rates *)

REL_POWER_CAP == 16000000    \* relative power is kept up to 16.0 (1/1000000)

\* variant: the ratio is taken the other way round, (Mkg/M_sun)^2
relativePowerInverted(M) ==
  Min(REL_POWER_CAP, DivT(M * 100, MASS_ONE) * DivT(M * 100, MASS_ONE) * 100)

\* relativePowerVsSolar(Mkg) = (M_sun/Mkg)^2 (constants.js:11), in 1/1000000,
\* for the mass M = Mkg/M_sun; Infinity and values above the cap read as the cap
relativePowerVsSolar(M) ==
  IF M = 0 THEN REL_POWER_CAP
  ELSE LET t == DivT(MASS_ONE * 10000, Abs(M))
       IN IF t >= 40000 THEN REL_POWER_CAP ELSE DivT(t * t, 100)

\* spawn_rate_per_second of fetchSpawnRate's local computation
\* (main.js:895-899): baseRate * pairRateUI * max(0.01, relPower),
\* in 1/10000 pairs per second
SpawnRate(M, rateUI) ==
  rateUI * DivT(Max(10000, relativePowerVsSolar(M)), 20)

\* rate * dt in accumulator units
RateTimesDt(rate, dt) ==
  (rate \div 1000) * dt + DivT((rate % 1000) * dt, 1000)

\* variant: the fraction left after the floor is dropped
AccumulateNoCarry(acc, rate, dt, smooth) ==
  LET n == (acc + RateTimesDt(rate, dt)) \div ACC_ONE
  IN IF n <= 0 /\ rate > 0 /\ smooth THEN <<1, 0>> ELSE <<n, 0>>

\* variant: the pairs requested are not taken off the accumulator
AccumulateKeepsWhole(acc, rate, dt, smooth) ==
  LET a1 == acc + RateTimesDt(rate, dt)
      n == a1 \div ACC_ONE
  IN IF n <= 0 /\ rate > 0 /\ smooth THEN <<1, 0>> ELSE <<n, a1>>

\* the accumulator step (main.js:1305-1313): <<pairsToSpawn, accumulator>>
Accumulate(acc, rate, dt, smooth) ==
  LET a1 == acc + RateTimesDt(rate, dt)
      n == a1 \div ACC_ONE
      a2 == a1 - n * ACC_ONE
  IN IF n <= 0 /\ rate > 0 /\ smooth THEN <<1, 0>> ELSE <<n, a2>>

\* s = (rs_m / rs_ref) * RS_BASE_VISUAL (main.js:942), rs_ref at 10 solar masses
ScaleOf(M) == DivAway(M, 1000)

-----------------------------------------------------------------------------
(* Inputs *)

Capacities == {MaxCap - 1, MaxCap}
Deltas == {60}                            \* frame interval, ms
SliderMasses == {10, 110000}              \* 0.001 and 11 solar masses
PairRates == {10, 1000}                   \* rate knob 0.1 and 10.0
DefaultWeights == <<70, 20, 10>>

\* outcomes of the Math.random calls of one pair spawn
Draws ==
  { [u |-> 10, x |-> 400, U |-> 0, dir |-> <<100, 0, 0>>,
     jitter |-> <<0, 0, 0>>, edir1 |-> <<0, 100, 0>>, edir2 |-> <<0, 0, -100>>],
    [u |-> 80, x |-> 11052, U |-> 99, dir |-> <<0, -100, 0>>,
     jitter |-> <<-20, 19, 0>>, edir1 |-> <<100, 0, 0>>, edir2 |-> <<-100, 0, 0>>] }

\* particles of a pair-generation response
OracleParts ==
  { [sp |-> 0, x |-> 400, vel |-> <<300, 0, 0>>],
    [sp |-> 2, x |-> 100, vel |-> <<0, -150, 0>>] }

\* responses: no usable data, or one or two particles
OracleResponses ==
  LET a == CHOOSE q \in OracleParts : q.sp = 0
      b == CHOOSE q \in OracleParts : q.sp = 2
  IN {<<>>, <<b>>, <<a, b>>}

\* the draws of the pairs of one scan: consecutive pairs draw differently
DrawSeqs(k) ==
  LET d1 == CHOOSE d \in Draws : d.u = 10
      d2 == CHOOSE d \in Draws : d.u = 80
  IN {[p \in 1 .. k |-> IF p % 2 = 1 THEN d1 ELSE d2]}

-----------------------------------------------------------------------------
(* State helpers *)

SetStore(st) ==
  /\ positions' = st.positions
  /\ velocities' = st.velocities
  /\ lifetimes' = st.lifetimes
  /\ ages' = st.ages
  /\ temps' = st.temps
  /\ species' = st.species

StoreVars == <<positions, velocities, lifetimes, ages, temps, species>>
EvapVars == <<isEvaporating, isInstantEvaporating, lastEvaporationTime, rafQueue>>
KnobVars == <<maxParticlesValue, pairRateValue, paused>>

\* the record of a step: its name, the pairs it spawned, the pairs it asked
\* for, its dt, and in pre what the step was called on: the arguments of a
\* direct call; for a reset the step before it and the live slots it found;
\* for a tick whether its buffer update marked the attributes and, when it
\* reallocates, the live slots it found; for an evaporation
\* step that spawns the mass its spawner read (BH_Mass_kg / M_sun); for a
\* response whether it was a failure (an error, null or an empty list)
NoOp == [name |-> "none", pairs |-> <<>>, k |-> 0, dt |-> 0, pre |-> <<>>]
Op(name, pairs) == [name |-> name, pairs |-> pairs, k |-> 0, dt |-> 0, pre |-> <<>>]

RemoveAt(q, i) == [j \in 1 .. (Len(q) - 1) |-> IF j < i THEN q[j] ELSE q[j + 1]]

\* a continuation that is already resolved runs before any other task
MicroPending ==
  \/ \E i \in 1 .. Len(inflight) : ~inflight[i].net
  \/ \E j \in scaleJobs : ~j.net

\* event handlers and frames run between tasks
Idle == pc = "run" /\ frameQueue = <<>> /\ ~MicroPending

\* a control event is handled
UiEvent == Idle /\ events < MaxEvents /\ events' = events + 1

Init ==
  /\ pc = "setup"
  /\ MAX_PARTICLES = MaxCap
  /\ maxParticlesValue = MAX_PARTICLES
  /\ positions = allocBuffers(MAX_PARTICLES).positions
  /\ velocities = allocBuffers(MAX_PARTICLES).velocities
  /\ lifetimes = allocBuffers(MAX_PARTICLES).lifetimes
  /\ ages = allocBuffers(MAX_PARTICLES).ages
  /\ temps = allocBuffers(MAX_PARTICLES).temps
  /\ species = allocBuffers(MAX_PARTICLES).species
  /\ needsBufferUpdate = FALSE
  /\ spawnAccumulator = 0
  /\ paused = FALSE
  /\ BH_Mass_solar = 100000
  /\ bhScale = 100
  /\ scaleJobs = {}
  /\ pairRateValue = 10
  /\ useAPI = TRUE
  /\ useQuantumPairGeneration = TRUE
  /\ lastSpawnTime = -1
  /\ now = 0
  /\ inflight = <<>>
  /\ isEvaporating = FALSE
  /\ isInstantEvaporating = FALSE
  /\ lastEvaporationTime = 0
  /\ rafQueue = <<>>
  /\ frameQueue = <<>>
  /\ events = 0
  /\ op = NoOp

\* initializeParticles (main.js:753-784), awaited before the first frame;
\* apiOk: whether its metrics request succeeded
InitializeParticles(apiOk, ds) ==
  /\ UNCHANGED events
  /\ pc = "setup"
  /\ LET cx == [tempK |-> <<"H", BH_Mass_solar>>, rs |-> bhScale,
                w |-> DefaultWeights, kind |-> "plain"]
         r == PairScan(Store, MAX_PARTICLES, 0, -1, <<>>,
                       Min(1000, MAX_PARTICLES \div 2), ds, cx)
     IN /\ SetStore(r.st)
        /\ op' = Op("initializeParticles", r.pairs)
  /\ needsBufferUpdate' = TRUE
  /\ useAPI' = apiOk
  /\ pc' = "run"
  /\ UNCHANGED <<MAX_PARTICLES, spawnAccumulator, BH_Mass_solar, bhScale, scaleJobs,
                 useQuantumPairGeneration, lastSpawnTime, now, inflight,
                 frameQueue>>
  /\ UNCHANGED <<EvapVars, KnobVars>>

-----------------------------------------------------------------------------
(* The frame: tick, then the evaporation callbacks registered for it *)

\* spawnParticles up to its first await (main.js:1157-1169, 1298): the
\* suspended invocation
StartSpawn(dt, t) ==
  LET canCallAPI == lastSpawnTime < 0 \/ t - lastSpawnTime >= MIN_SPAWN_INTERVAL
  IN IF useQuantumPairGeneration /\ useAPI /\ canCallAPI
     THEN [stage |-> "pairs", dt |-> dt, t |-> t, ui |-> pairRateValue,
           mass |-> BH_Mass_solar, rate |-> 0, tempK |-> <<"K", 0>>, net |-> TRUE]
     ELSE [stage |-> "rate", dt |-> dt, t |-> t, ui |-> pairRateValue,
           mass |-> BH_Mass_solar, rate |-> SpawnRate(BH_Mass_solar, pairRateValue),
           tempK |-> <<"K", 0>>, net |-> useAPI]

\* variant: the attributes are marked in unpaused frames only
FlushNeededUnpausedOnly(flag, isPaused) == ~isPaused

\* the test of the buffer update (main.js:2367)
FlushNeeded(flag, isPaused) == flag \/ ~isPaused

\* tick (main.js:2310-2412): reallocation, spawn and integration when not
\* paused, the buffer update that marks every attribute, then the render
Tick(delta) ==
  /\ UNCHANGED events
  /\ Idle
  /\ now <= MaxNow
  /\ paused \/ Len(inflight) < MaxInFlight
  /\ rafQueue = <<>> \/ Cardinality(scaleJobs) < MaxScaleJobs
  /\ now' = now + delta
  /\ LET dt == Min(50, delta)
         desired == maxParticlesValue
         realloc == desired # MAX_PARTICLES
         st0 == IF realloc THEN allocBuffers(desired) ELSE Store
         st1 == IF paused THEN st0 ELSE updateParticles(st0, desired, dt, bhScale)
         dirty == \/ needsBufferUpdate
                  \/ realloc
                  \/ ~paused /\ HasUpdates(st0, desired)
     IN /\ MAX_PARTICLES' = desired
        /\ SetStore(st1)
        /\ inflight' = IF paused THEN inflight
                       ELSE Append(inflight, StartSpawn(dt, now'))
        /\ needsBufferUpdate' = IF FlushNeeded(dirty, paused) THEN FALSE ELSE dirty
        /\ op' = [name |-> IF realloc THEN "tick+alloc" ELSE "tick",
                  pairs |-> <<>>, k |-> 0, dt |-> IF paused THEN 0 ELSE dt,
                  pre |-> IF realloc
                          THEN [live |-> Cardinality({i \in Slots(Store) : IsLive(Store, i)}),
                                flushed |-> FlushNeeded(dirty, paused)]
                          ELSE [flushed |-> FlushNeeded(dirty, paused)]]
  /\ frameQueue' = rafQueue
  /\ rafQueue' = <<>>
  /\ UNCHANGED <<pc, spawnAccumulator, BH_Mass_solar, bhScale, scaleJobs, useAPI,
                 useQuantumPairGeneration, lastSpawnTime, isEvaporating,
                 isInstantEvaporating, lastEvaporationTime, KnobVars>>

\* a response may run once the current task is over; a resolved continuation
\* runs at once
MayResume(net) == pc = "run" /\ (net => frameQueue = <<>> /\ ~MicroPending)

\* variant: after a response without particles the invocation returns
\* without the local computation
PairsResponseNoFallback(i, parts, ds) ==
  /\ UNCHANGED events
  /\ i \in 1 .. Len(inflight)
  /\ inflight[i].stage = "pairs"
  /\ MayResume(inflight[i].net)
  /\ LET e == inflight[i]
         cx == [tempK |-> <<"Q", e.mass>>, rs |-> bhScale, ds |-> ds]
         r == IF parts = <<>> THEN [st |-> Store, pairs |-> <<>>]
              ELSE OracleSpawn(Store, MAX_PARTICLES, parts, cx)
         created == Len(r.pairs) > 0
     IN /\ SetStore(r.st)
        /\ needsBufferUpdate' = (needsBufferUpdate \/ created)
        /\ lastSpawnTime' = IF created THEN e.t ELSE lastSpawnTime
        /\ inflight' = RemoveAt(inflight, i)
        /\ op' = [Op("oracleSpawn", r.pairs) EXCEPT !.pre = [failed |-> parts = <<>>]]
  /\ UNCHANGED <<pc, MAX_PARTICLES, spawnAccumulator, BH_Mass_solar, bhScale,
                 scaleJobs, useAPI, useQuantumPairGeneration, now, frameQueue>>
  /\ UNCHANGED <<EvapVars, KnobVars>>

\* the pair-generation response arrives (main.js:1169-1285): parts is its
\* particle list, empty for null, an error or an empty list
PairsResponse(i, parts, ds) ==
  /\ UNCHANGED events
  /\ i \in 1 .. Len(inflight)
  /\ inflight[i].stage = "pairs"
  /\ MayResume(inflight[i].net)
  /\ LET e == inflight[i]
         cx == [tempK |-> <<"Q", e.mass>>, rs |-> bhScale, ds |-> ds]
         r == IF parts = <<>> THEN [st |-> Store, pairs |-> <<>>]
              ELSE OracleSpawn(Store, MAX_PARTICLES, parts, cx)
         created == Len(r.pairs) > 0
     IN /\ SetStore(r.st)
        /\ needsBufferUpdate' = (needsBufferUpdate \/ created)
        /\ lastSpawnTime' = IF created THEN e.t ELSE lastSpawnTime
        /\ inflight' = IF created THEN RemoveAt(inflight, i)
                       ELSE [inflight EXCEPT ![i] =
                               [e EXCEPT !.stage = "rate",
                                         !.rate = SpawnRate(BH_Mass_solar, e.ui),
                                         !.net = useAPI]]
        /\ op' = [Op("oracleSpawn", r.pairs) EXCEPT !.pre = [failed |-> parts = <<>>]]
  /\ UNCHANGED <<pc, MAX_PARTICLES, spawnAccumulator, BH_Mass_solar, bhScale,
                 scaleJobs, useAPI, useQuantumPairGeneration, now, frameQueue>>
  /\ UNCHANGED <<EvapVars, KnobVars>>

\* fetchSpawnRate resolves (main.js:1298-1302); ok = FALSE: the request
\* failed, useAPI is cleared and the local value is used
RateResponse(i, ok) ==
  /\ UNCHANGED events
  /\ i \in 1 .. Len(inflight)
  /\ inflight[i].stage = "rate"
  /\ MayResume(inflight[i].net)
  /\ inflight[i].net \/ ok
  /\ useAPI' = (useAPI /\ ok)
  /\ inflight' = [inflight EXCEPT ![i] =
                    [@ EXCEPT !.stage = "metrics",
                              !.tempK = <<"H", BH_Mass_solar>>,
                              !.net = useAPI']]
  /\ op' = [Op("rateResponse", <<>>) EXCEPT !.pre = [failed |-> ~ok]]
  /\ UNCHANGED <<pc, MAX_PARTICLES, StoreVars, needsBufferUpdate, spawnAccumulator,
                 BH_Mass_solar, bhScale, scaleJobs, useQuantumPairGeneration,
                 lastSpawnTime, now, frameQueue>>
  /\ UNCHANGED <<EvapVars, KnobVars>>

\* fetchBlackHoleMetrics resolves and the local path runs to its end
\* (main.js:1302-1338); smooth: Math.random() < 0.1
MetricsResponse(i, ok, smooth, ds) ==
  /\ UNCHANGED events
  /\ i \in 1 .. Len(inflight)
  /\ inflight[i].stage = "metrics"
  /\ MayResume(inflight[i].net)
  /\ inflight[i].net \/ ok
  /\ useAPI' = (useAPI /\ ok)
  /\ LET e == inflight[i]
         a == Accumulate(spawnAccumulator, e.rate, e.dt, smooth)
         pairsToSpawn == a[1]
         cx == [tempK |-> e.tempK, rs |-> bhScale, w |-> DefaultWeights,
                kind |-> "plain"]
         r == IF pairsToSpawn <= 0 THEN [st |-> Store, pairs |-> <<>>]
              ELSE LocalSpawn(Store, MAX_PARTICLES, pairsToSpawn, ds, cx)
     IN /\ spawnAccumulator' = a[2]
        /\ SetStore(r.st)
        /\ needsBufferUpdate' = (needsBufferUpdate \/ Len(r.pairs) > 0)
        /\ op' = [name |-> "localSpawn", pairs |-> r.pairs, k |-> pairsToSpawn,
                  dt |-> e.dt, pre |-> [failed |-> ~ok]]
  /\ inflight' = RemoveAt(inflight, i)
  /\ UNCHANGED <<pc, MAX_PARTICLES, BH_Mass_solar, bhScale, scaleJobs,
                 useQuantumPairGeneration, lastSpawnTime, now, frameQueue>>
  /\ UNCHANGED <<EvapVars, KnobVars>>

\* updateBHScale resumes after its two metrics requests (main.js:935-954)
ScaleResponse(j, ok) ==
  /\ UNCHANGED events
  /\ j \in scaleJobs
  /\ MayResume(j.net)
  /\ j.net \/ ok
  /\ useAPI' = (useAPI /\ ok)
  /\ bhScale' = ScaleOf(j.mass)
  /\ scaleJobs' = scaleJobs \ {j}
  /\ op' = Op("updateBHScale", <<>>)
  /\ UNCHANGED <<pc, MAX_PARTICLES, StoreVars, needsBufferUpdate, spawnAccumulator,
                 BH_Mass_solar, useQuantumPairGeneration, lastSpawnTime, now,
                 inflight, frameQueue>>
  /\ UNCHANGED <<EvapVars, KnobVars>>

-----------------------------------------------------------------------------
(* Controls *)

\* resetBtn click (main.js:1486-1501)
ClickReset ==
  /\ UiEvent
  /\ SetStore(ResetStore(Store, MAX_PARTICLES))
  /\ needsBufferUpdate' = TRUE
  /\ op' = [name |-> "reset", pairs |-> <<>>, k |-> 0, dt |-> 0,
            pre |-> [name |-> op.name,
                     live |-> Cardinality({i \in Slots(Store) : IsLive(Store, i)})]]
  /\ UNCHANGED <<pc, MAX_PARTICLES, spawnAccumulator, BH_Mass_solar, bhScale,
                 scaleJobs, useAPI, useQuantumPairGeneration, lastSpawnTime, now,
                 inflight, frameQueue>>
  /\ UNCHANGED <<EvapVars, KnobVars>>

\* pauseBtn click (main.js:1502)
ClickPause ==
  /\ UiEvent
  /\ paused' = ~paused
  /\ op' = Op("pause", <<>>)
  /\ UNCHANGED <<pc, MAX_PARTICLES, StoreVars, needsBufferUpdate, spawnAccumulator,
                 BH_Mass_solar, bhScale, scaleJobs, useAPI,
                 useQuantumPairGeneration, lastSpawnTime, now, inflight,
                 frameQueue, maxParticlesValue, pairRateValue>>
  /\ UNCHANGED EvapVars

\* the capacity slider moves (main.js:1448-1452): only the control changes
SetCapacity(v) ==
  /\ UiEvent
  /\ v # maxParticlesValue
  /\ maxParticlesValue' = v
  /\ op' = Op("setCapacity", <<>>)
  /\ UNCHANGED <<pc, MAX_PARTICLES, StoreVars, needsBufferUpdate, spawnAccumulator,
                 BH_Mass_solar, bhScale, scaleJobs, useAPI,
                 useQuantumPairGeneration, lastSpawnTime, now, inflight,
                 frameQueue, pairRateValue, paused>>
  /\ UNCHANGED EvapVars

\* the rate knob moves (main.js:1447)
SetPairRate(v) ==
  /\ UiEvent
  /\ v # pairRateValue
  /\ pairRateValue' = v
  /\ op' = Op("setPairRate", <<>>)
  /\ UNCHANGED <<pc, MAX_PARTICLES, StoreVars, needsBufferUpdate, spawnAccumulator,
                 BH_Mass_solar, bhScale, scaleJobs, useAPI,
                 useQuantumPairGeneration, lastSpawnTime, now, inflight,
                 frameQueue, maxParticlesValue, paused>>
  /\ UNCHANGED EvapVars

\* updateBHScale is called for the current mass (main.js:931-935)
CallUpdateBHScale(jobs, M) == jobs \cup {[mass |-> M, net |-> useAPI]}

\* syncMassInputs (main.js:1438-1444)
SetMass(m) ==
  /\ UiEvent
  /\ m # BH_Mass_solar
  /\ Cardinality(scaleJobs) < MaxScaleJobs
  /\ BH_Mass_solar' = m
  /\ scaleJobs' = CallUpdateBHScale(scaleJobs, m)
  /\ op' = Op("setMass", <<>>)
  /\ UNCHANGED <<pc, MAX_PARTICLES, StoreVars, needsBufferUpdate, spawnAccumulator,
                 bhScale, useAPI, useQuantumPairGeneration, lastSpawnTime, now,
                 inflight, frameQueue>>
  /\ UNCHANGED <<EvapVars, KnobVars>>

-----------------------------------------------------------------------------
(* Evaporation *)

\* variant: the loop has no test of the mass and goes on below 0.001
EvaporationStepNoStop(dt, ds) ==
  LET m == BH_Mass_solar - DivT(dt, 10)
      cx == [tempK |-> <<"H", m>>, rs |-> bhScale, w |-> DefaultWeights,
             kind |-> "plain"]
      r == PairScan(Store, MAX_PARTICLES, 0, -1, <<>>, 5, ds, cx)
  IN /\ BH_Mass_solar' = m
     /\ lastEvaporationTime' = now
     /\ isEvaporating' = TRUE
     /\ SetStore(r.st)
     /\ needsBufferUpdate' = (needsBufferUpdate \/ Len(r.pairs) > 0)
     /\ scaleJobs' = CallUpdateBHScale(scaleJobs, m)
     /\ rafQueue' = Append(rafQueue, "evaporationLoop")
     /\ op' = [Op("spawnAdditionalParticles", r.pairs) EXCEPT !.pre = [mass |-> m]]

\* evaporationLoop past its isEvaporating test (main.js:1773-1804), with
\* stopEvaporation (main.js:1750-1768) when the mass is used up
EvaporationStep(dt, ds) ==
  LET m == BH_Mass_solar - DivT(dt, 10)
      done == m <= MASS_DONE
      cx == IF done
            THEN [tempK |-> <<"K", 10>>, rs |-> bhScale, w |-> DefaultWeights,
                  kind |-> "explosion"]
            ELSE [tempK |-> <<"H", m>>, rs |-> bhScale, w |-> DefaultWeights,
                  kind |-> "plain"]
      r == PairScan(Store, MAX_PARTICLES, 0, -1, <<>>,
                    IF done THEN 500 ELSE 5, ds, cx)
  IN /\ BH_Mass_solar' = m
     /\ lastEvaporationTime' = now
     /\ isEvaporating' = ~done
     /\ SetStore(r.st)
     /\ needsBufferUpdate' = (needsBufferUpdate \/ done \/ Len(r.pairs) > 0)
     /\ scaleJobs' = IF done THEN scaleJobs ELSE CallUpdateBHScale(scaleJobs, m)
     /\ rafQueue' = IF done THEN rafQueue ELSE Append(rafQueue, "evaporationLoop")
     /\ op' = [Op(IF done THEN "createExplosionEffect" ELSE "spawnAdditionalParticles",
                  r.pairs)
               EXCEPT !.pre = IF done THEN <<>> ELSE [mass |-> m]]

\* evaporateBtn click: startEvaporation (main.js:1735-1748, 1892-1896)
ClickEvaporate(ds) ==
  /\ UiEvent
  /\ ~isEvaporating
  /\ Cardinality(scaleJobs) < MaxScaleJobs
  /\ Len(rafQueue) < MaxRaf
  /\ EvaporationStep(0, ds)
  /\ UNCHANGED <<pc, MAX_PARTICLES, spawnAccumulator, bhScale, useAPI,
                 useQuantumPairGeneration, lastSpawnTime, now, inflight,
                 frameQueue, isInstantEvaporating, KnobVars>>

\* stopEvaporateBtn click: stopEvaporation (main.js:1750-1768, 1898-1902)
ClickStopEvaporate(ds) ==
  /\ UiEvent
  /\ isEvaporating
  /\ isEvaporating' = FALSE
  /\ LET done == BH_Mass_solar <= MASS_DONE
         cx == [tempK |-> <<"K", 10>>, rs |-> bhScale, w |-> DefaultWeights,
                kind |-> "explosion"]
         r == IF done THEN PairScan(Store, MAX_PARTICLES, 0, -1, <<>>, 500, ds, cx)
              ELSE [st |-> Store, pairs |-> <<>>]
     IN /\ SetStore(r.st)
        /\ needsBufferUpdate' = (needsBufferUpdate \/ done)
        /\ op' = Op("stopEvaporation", r.pairs)
  /\ UNCHANGED <<pc, MAX_PARTICLES, spawnAccumulator, BH_Mass_solar, bhScale,
                 scaleJobs, useAPI, useQuantumPairGeneration, lastSpawnTime, now,
                 inflight, frameQueue, isInstantEvaporating, lastEvaporationTime,
                 rafQueue, KnobVars>>

\* the evaporationLoop callback of the current frame (main.js:1770-1805)
EvaporationLoop(ds) ==
  /\ UNCHANGED events
  /\ pc = "run" /\ ~MicroPending
  /\ frameQueue # <<>> /\ Head(frameQueue) = "evaporationLoop"
  /\ frameQueue' = Tail(frameQueue)
  /\ IF isEvaporating
     THEN EvaporationStep(Min(50, now - lastEvaporationTime), ds)
     ELSE /\ op' = Op("evaporationLoop", <<>>)
          /\ UNCHANGED <<StoreVars, needsBufferUpdate, BH_Mass_solar, scaleJobs,
                         isEvaporating, lastEvaporationTime, rafQueue>>
  /\ UNCHANGED <<pc, MAX_PARTICLES, spawnAccumulator, bhScale, useAPI,
                 useQuantumPairGeneration, lastSpawnTime, now, inflight,
                 isInstantEvaporating, KnobVars>>

\* instantEvaporationLoop past its flag test (main.js:1919-1951), with
\* finishInstantEvaporation (main.js:1994-2016) when the mass is used up
InstantStep(dt, ds, ds2) ==
  LET m == BH_Mass_solar - 50 * dt
      done == m <= MASS_DONE
      cx == [tempK |-> <<"H", m>>, rs |-> bhScale, w |-> DefaultWeights,
             kind |-> "massive"]
      r == PairScan(Store, MAX_PARTICLES, 0, -1, <<>>, 20, ds, cx)
      cx2 == [tempK |-> <<"K", 12>>, rs |-> bhScale, w |-> DefaultWeights,
              kind |-> "big"]
      r2 == IF done THEN PairScan(r.st, MAX_PARTICLES, 0, -1, r.pairs, 2000 + Len(r.pairs), ds2, cx2)
            ELSE r
  IN /\ BH_Mass_solar' = IF done THEN MASS_DONE ELSE m
     /\ lastEvaporationTime' = now
     /\ isInstantEvaporating' = ~done
     /\ SetStore(r2.st)
     /\ needsBufferUpdate' = (needsBufferUpdate \/ done \/ Len(r.pairs) > 0)
     /\ scaleJobs' = IF done
                     THEN CallUpdateBHScale(CallUpdateBHScale(scaleJobs, m), MASS_DONE)
                     ELSE CallUpdateBHScale(scaleJobs, m)
     /\ rafQueue' = IF done THEN rafQueue ELSE Append(rafQueue, "instantEvaporationLoop")
     /\ op' = [Op(IF done THEN "finishInstantEvaporation" ELSE "spawnMassiveParticles",
                  r2.pairs)
               EXCEPT !.pre = [mass |-> m]]

\* instantEvaporateBtn click (main.js:1905-1914, 2084-2088)
ClickInstantEvaporate(ds, ds2) ==
  /\ UiEvent
  /\ ~isInstantEvaporating /\ ~isEvaporating
  /\ Cardinality(scaleJobs) < MaxScaleJobs
  /\ Len(rafQueue) < MaxRaf
  /\ InstantStep(IF lastEvaporationTime = 0 THEN 0
                 ELSE Min(50, now - lastEvaporationTime), ds, ds2)
  /\ UNCHANGED <<pc, MAX_PARTICLES, spawnAccumulator, bhScale, useAPI,
                 useQuantumPairGeneration, lastSpawnTime, now, inflight,
                 frameQueue, isEvaporating, KnobVars>>

\* the instantEvaporationLoop callback of the current frame (main.js:1916-1952)
InstantEvaporationLoop(ds, ds2) ==
  /\ UNCHANGED events
  /\ pc = "run" /\ ~MicroPending
  /\ frameQueue # <<>> /\ Head(frameQueue) = "instantEvaporationLoop"
  /\ frameQueue' = Tail(frameQueue)
  /\ IF isInstantEvaporating
     THEN InstantStep(IF lastEvaporationTime = 0 THEN 0
                         ELSE Min(50, now - lastEvaporationTime), ds, ds2)
     ELSE /\ op' = Op("instantEvaporationLoop", <<>>)
          /\ UNCHANGED <<StoreVars, needsBufferUpdate, BH_Mass_solar, scaleJobs,
                         isInstantEvaporating, lastEvaporationTime, rafQueue>>
  /\ UNCHANGED <<pc, MAX_PARTICLES, spawnAccumulator, bhScale, useAPI,
                 useQuantumPairGeneration, lastSpawnTime, now, inflight,
                 isEvaporating, KnobVars>>

-----------------------------------------------------------------------------

MaxPairs == MAX_PARTICLES \div 2

Next ==
  \/ \E ok \in BOOLEAN, ds \in DrawSeqs(MaxPairs) : InitializeParticles(ok, ds)
  \/ \E delta \in Deltas : Tick(delta)
  \/ \E i \in 1 .. Len(inflight), parts \in OracleResponses, ds \in DrawSeqs(MaxPairs) :
       PairsResponse(i, parts, ds)
  \/ \E i \in 1 .. Len(inflight), ok \in BOOLEAN : RateResponse(i, ok)
  \/ \E i \in 1 .. Len(inflight), ok \in {TRUE}, smooth \in BOOLEAN,
        ds \in DrawSeqs(MaxPairs) : MetricsResponse(i, ok, smooth, ds)
  \/ \E j \in scaleJobs, ok \in {TRUE} : ScaleResponse(j, ok)
  \/ ClickReset
  \/ ClickPause
  \/ \E v \in Capacities : SetCapacity(v)
  \/ \E v \in PairRates : SetPairRate(v)
  \/ \E m \in SliderMasses : SetMass(m)
  \/ \E ds \in DrawSeqs(MaxPairs) : ClickEvaporate(ds)
  \/ \E ds \in DrawSeqs(MaxPairs) : ClickStopEvaporate(ds)
  \/ \E ds \in DrawSeqs(MaxPairs) : EvaporationLoop(ds)
  \/ \E ds \in DrawSeqs(MaxPairs), ds2 \in DrawSeqs(MaxPairs) : ClickInstantEvaporate(ds, ds2)
  \/ \E ds \in DrawSeqs(MaxPairs), ds2 \in DrawSeqs(MaxPairs) : InstantEvaporationLoop(ds, ds2)

Spec == Init /\ [][Next]_vars

-----------------------------------------------------------------------------
(* Properties of the particle pool *)

Indices == 0 .. (MAX_PARTICLES - 1)
LiveCount == Cardinality({i \in Indices : IsLive(Store, i)})
FreeCount == Cardinality({i \in Indices : IsFree(Store, i)})

\* the slots a step's pair spawns wrote
PairIndices(o) ==
  {o.pairs[k][1] : k \in 1 .. Len(o.pairs)} \cup {o.pairs[k][2] : k \in 1 .. Len(o.pairs)}

SpawnOps == {"initializeParticles", "localSpawn", "oracleSpawn",
             "spawnAdditionalParticles", "spawnMassiveParticles",
             "createExplosionEffect", "finishInstantEvaporation",
             "stopEvaporation"}

\* C1: in every reachable state the live slots and the free slots among the
\* indices 0..MAX_PARTICLES-1 add up to MAX_PARTICLES, and the ages and
\* lifetimes arrays have exactly MAX_PARTICLES entries.
C1_PoolConservation ==
  /\ LiveCount + FreeCount = MAX_PARTICLES
  /\ DOMAIN ages = Indices
  /\ DOMAIN lifetimes = Indices

\* a store reallocated to another capacity holds live particles again
C1_Witness ==
  /\ MAX_PARTICLES # MaxCap
  /\ LiveCount > 0
  /\ FreeCount > 0

\* C2: in every reachable state every free slot has the sentinel in all three
\* position components and zero velocity; this includes the state right after
\* the updateParticles step that freed the slot.
C2_FreeSlotInvariant ==
  \A i \in DOMAIN ages :
    IsFree(Store, i) => positions[i] = SENTINEL3 /\ velocities[i] = ZERO3

\* a tick has just freed a slot that carried a particle
C2_Witness ==
  /\ op.name = "tick"
  /\ \E i \in Indices : IsFree(Store, i) /\ temps[i][1] \in {"H", "Q"}

\* C3: in every step, a slot that goes from free to live was written by a pair
\* spawn of that step, and a slot that goes from live to free did so in a
\* tick (updateParticles, or allocBuffers before it) or in the reset handler.
C3_LifecycleStep ==
  \A i \in (DOMAIN ages) \cap (DOMAIN ages') :
    /\ (ages[i] >= lifetimes[i] /\ ages'[i] < lifetimes'[i])
         => op'.name \in SpawnOps /\ i \in PairIndices(op')
    /\ (ages[i] < lifetimes[i] /\ ages'[i] >= lifetimes'[i])
         => op'.name \in {"tick", "tick+alloc", "reset"}

C3_Lifecycle == [][C3_LifecycleStep]_vars

\* an explosion effect has just turned free slots live
C3_Witness ==
  /\ op.name = "createExplosionEffect"
  /\ \E k \in 1 .. Len(op.pairs) :
       IsLive(Store, op.pairs[k][1]) /\ lifetimes[op.pairs[k][1]] = 10000

C5_NoPartialSpawn ==
  \A i \in PairIndices(op) :
    /\ i \in DOMAIN ages
    /\ ages[i] = 0
    /\ lifetimes[i] > 0
    /\ positions[i] # SENTINEL3

\* the oracle path has just written a pair
C5_Witness ==
  /\ op.name = "oracleSpawn"
  /\ Len(op.pairs) = 1
  /\ temps[op.pairs[1][2]][1] = "Q"

FreeBefore == {i \in Indices : ages[i] >= lifetimes[i]}

\* the n-th smallest element of a set of indices, n counted from 0
RECURSIVE NthLowest(_, _)
NthLowest(S, n) ==
  LET m == CHOOSE x \in S : \A y \in S : x <= y
  IN IF n = 0 THEN m ELSE NthLowest(S \ {m}, n - 1)

\* C6: a local spawn asked for k >= 1 pairs with f slots free creates
\* min(k, floor(f/2)) pairs, pair p on the 2p-th and (2p+1)-th free index in
\* ascending order; with f < 2 it leaves the particle arrays and the dirty
\* flag as they were.
C6_LocalSpawnStep ==
  (op'.name = "localSpawn" /\ op'.k >= 1) =>
    LET f == Cardinality(FreeBefore)
        n == Min(op'.k, f \div 2)
    IN /\ Len(op'.pairs) = n
       /\ \A p \in 0 .. (n - 1) :
            /\ op'.pairs[p + 1][1] = NthLowest(FreeBefore, 2 * p)
            /\ op'.pairs[p + 1][2] = NthLowest(FreeBefore, 2 * p + 1)
            /\ ages'[op'.pairs[p + 1][1]] < lifetimes'[op'.pairs[p + 1][1]]
            /\ ages'[op'.pairs[p + 1][2]] < lifetimes'[op'.pairs[p + 1][2]]
       /\ f < 2 => /\ UNCHANGED StoreVars
                   /\ UNCHANGED needsBufferUpdate

C6_LocalSpawn == [][C6_LocalSpawnStep]_vars

\* a local spawn asked for one pair with four slots free
C6_Witness ==
  /\ op.name = "localSpawn"
  /\ op.k = 1
  /\ Len(op.pairs) = 1
  /\ FreeCount >= 2

-----------------------------------------------------------------------------
(* updateParticles called directly on one particle *)

\* the variables a direct call leaves at their start-up values
AtRest ==
  /\ maxParticlesValue = MAX_PARTICLES
  /\ needsBufferUpdate = FALSE
  /\ paused = FALSE
  /\ scaleJobs = {}
  /\ useAPI = FALSE
  /\ useQuantumPairGeneration = TRUE
  /\ lastSpawnTime = -1
  /\ now = 0
  /\ isEvaporating = FALSE
  /\ isInstantEvaporating = FALSE
  /\ lastEvaporationTime = 0
  /\ rafQueue = <<>>
  /\ frameQueue = <<>>
  /\ events = 0

\* positions: at the spawn radii 1.01 and 1.09 of a unit horizon, close to
\* the origin, well outside, and beyond the range the loop processes
TestPositions ==
  {<<101, 0, 0>>, <<109, 0, 0>>, <<0, -109, 0>>, <<5, 0, 0>>, <<300, 0, 0>>,
   <<POS_LIMIT + 100, 0, 0>>}

\* velocities: at rest, the fastest outward and inward emission, an explosion
TestVelocities == {ZERO3, <<300, 0, 0>>, <<-210, 0, 0>>, <<0, 1500, 0>>}

\* <<age, lifetime>>: fresh, and 60, 50, 20 and 10 ms before expiry
TestAges == {<<0, 849>>, <<940, 1000>>, <<950, 1000>>, <<980, 1000>>, <<990, 1000>>}

\* horizon radius before and after the mass goes from 10 to 11 solar masses
TestScales == {ScaleOf(100000), ScaleOf(110000)}

\* dt of the call, ms: below, at and above the clamp
StepDts == {10, 50, 130}

InitIntegrator ==
  /\ pc = "integrator"
  /\ MAX_PARTICLES = 1
  /\ positions \in [{0} -> TestPositions]
  /\ velocities \in [{0} -> TestVelocities]
  /\ \E a \in TestAges : ages = [i \in {0} |-> a[1]] /\ lifetimes = [i \in {0} |-> a[2]]
  /\ temps = [i \in {0} |-> <<"H", 100000>>]
  /\ species \in [{0} -> {0, 1}]
  /\ bhScale \in TestScales
  /\ BH_Mass_solar = 100000
  /\ pairRateValue = 10
  /\ spawnAccumulator = 0
  /\ inflight = <<>>
  /\ op = NoOp
  /\ AtRest

\* updateParticles(dt) (main.js:1343-1416)
CallUpdateParticles(dt) ==
  /\ pc = "integrator"
  /\ pc' = "integrated"
  /\ SetStore(updateParticles(Store, MAX_PARTICLES, dt, bhScale))
  /\ needsBufferUpdate' = (needsBufferUpdate \/ HasUpdates(Store, MAX_PARTICLES))
  /\ op' = [name |-> "updateParticles", pairs |-> <<>>, k |-> 0, dt |-> dt,
            pre |-> Store]
  /\ UNCHANGED <<MAX_PARTICLES, spawnAccumulator, BH_Mass_solar, bhScale, scaleJobs,
                 useAPI, useQuantumPairGeneration, lastSpawnTime, now, inflight,
                 frameQueue, events>>
  /\ UNCHANGED <<EvapVars, KnobVars>>

NextIntegrator == \E dt \in StepDts : CallUpdateParticles(dt)

SpecIntegrator == InitIntegrator /\ [][NextIntegrator]_vars

\* slot i held a live particle within range when updateParticles was called
WasStepped(i) ==
  /\ op.name = "updateParticles"
  /\ i \in DOMAIN op.pre.ages
  /\ op.pre.ages[i] < op.pre.lifetimes[i]
  /\ ~OutOfRange(op.pre.positions[i])

\* its distance from the origin was below horizonRadius * 1.01 at the call
WasBelowHorizon(i) ==
  Norm2(op.pre.positions[i]) * 10000 < (bhScale * 101) * (bhScale * 101)

Dot(p, q) == p[1] * q[1] + p[2] * q[2] + p[3] * q[3]

Cross(p, q) ==
  <<p[2] * q[3] - p[3] * q[2], p[3] * q[1] - p[1] * q[3], p[1] * q[2] - p[2] * q[1]>>

\* at rest, or moving straight toward the origin by no more than its
\* distance in the clamped step
WasNotLeaving(i) ==
  LET p == op.pre.positions[i]
      v == op.pre.velocities[i]
  IN /\ Cross(p, v) = ZERO3
     /\ Dot(p, v) <= 0
     /\ Norm2(Scale(v, Min(op.dt, DT_CLAMP), 1000)) <= Norm2(p)

Eps(i) == op.pre.lifetimes[i] - op.pre.ages[i]

-----------------------------------------------------------------------------
(* The accumulator of the local path called repeatedly with one rate and dt *)

MaxAccTime == 1100        \* calls are made while the elapsed time is below it, ms

AccKnobs == {0, 10, 100}  \* rate knob 0, 0.1 and 1.0: 0, 50 and 500 pairs per
                          \* second at one solar mass
AccDts == {10, 16, 50}    \* dt of the run, ms

\* op.dt is the dt of the run, op.k the pairs requested so far and op.pre the
\* number of calls that took the smoothing branch
InitAccumulator ==
  /\ pc = "accumulator"
  /\ MAX_PARTICLES = 1
  /\ positions = allocBuffers(1).positions
  /\ velocities = allocBuffers(1).velocities
  /\ lifetimes = allocBuffers(1).lifetimes
  /\ ages = allocBuffers(1).ages
  /\ temps = allocBuffers(1).temps
  /\ species = allocBuffers(1).species
  /\ bhScale = ScaleOf(MASS_ONE)
  /\ BH_Mass_solar = MASS_ONE
  /\ pairRateValue \in AccKnobs
  /\ spawnAccumulator = 0
  /\ inflight = <<>>
  /\ \E dt \in AccDts : op = [name |-> "none", pairs |-> <<>>, k |-> 0, dt |-> dt, pre |-> 0]
  /\ AtRest

\* main.js:1305-1313 with rate and dt as they were in the call before
CallAccumulate(smooth) ==
  /\ pc = "accumulator"
  /\ now < MaxAccTime
  /\ LET rate == SpawnRate(BH_Mass_solar, pairRateValue)
         a == Accumulate(spawnAccumulator, rate, op.dt, smooth)
         hit == a # Accumulate(spawnAccumulator, rate, op.dt, FALSE)
     IN /\ spawnAccumulator' = a[2]
        /\ op' = [name |-> "accumulate", pairs |-> <<>>, k |-> op.k + a[1],
                  dt |-> op.dt, pre |-> IF hit THEN op.pre + 1 ELSE op.pre]
  /\ now' = now + op.dt
  /\ UNCHANGED <<pc, MAX_PARTICLES, StoreVars, needsBufferUpdate, BH_Mass_solar,
                 bhScale, scaleJobs, useAPI, useQuantumPairGeneration,
                 lastSpawnTime, inflight, frameQueue, events>>
  /\ UNCHANGED <<EvapVars, KnobVars>>

NextAccumulator == \E smooth \in BOOLEAN : CallAccumulate(smooth)

SpecAccumulator == InitAccumulator /\ [][NextAccumulator]_vars

\* rate * dt, rate * n * dt and the pairs requested, in accumulator units
AccStep == RateTimesDt(SpawnRate(BH_Mass_solar, pairRateValue), op.dt)
AccExpected == (now \div op.dt) * AccStep
AccRequested == op.k * ACC_ONE

Within2Percent == 50 * Abs(AccRequested - AccExpected) <= AccExpected

\* C9 as stated: the pairs requested over n calls are within 2% of
\* rate * n * dt (taken once that amounts to 50 pairs), whatever the
\* smoothing draws.
C9_AnyDraws ==
  (pc = "accumulator" /\ AccExpected >= 50 * ACC_ONE) => Within2Percent

\* C9: the pairs requested plus the accumulator never fall below
\* rate * n * dt; with no call taking the smoothing branch they equal it, so
\* that the pairs requested are within 2% once rate * n * dt is 50 pairs;
\* every call that takes the smoothing branch adds at most one pair.
C9_RateConvergence ==
  pc = "accumulator" =>
    /\ AccRequested + spawnAccumulator >= AccExpected
    /\ AccRequested + spawnAccumulator <= AccExpected + op.pre * ACC_ONE
    /\ (op.pre = 0 /\ AccExpected >= 50 * ACC_ONE) => Within2Percent
    /\ AccStep >= ACC_ONE => op.pre = 0

\* a run at rate * dt = 0.5 in which the smoothing draw never hit has reached
\* 50 pairs
C9_Witness ==
  /\ pc = "accumulator"
  /\ AccStep = ACC_ONE \div 2
  /\ op.pre = 0
  /\ AccExpected >= 50 * ACC_ONE
  /\ Within2Percent

-----------------------------------------------------------------------------
(* The local spawn rate computed for several masses *)

MaxRateCalls == 2         \* rates computed in one run

RateKnobs == {2, 10, 100}
MassGrid == {2500, 5000, 10000, 50000, 90000, 100000, 110000, 200000}

InitRate ==
  /\ pc = "rate"
  /\ MAX_PARTICLES = 1
  /\ positions = allocBuffers(1).positions
  /\ velocities = allocBuffers(1).velocities
  /\ lifetimes = allocBuffers(1).lifetimes
  /\ ages = allocBuffers(1).ages
  /\ temps = allocBuffers(1).temps
  /\ species = allocBuffers(1).species
  /\ bhScale = ScaleOf(100000)
  /\ BH_Mass_solar \in MassGrid
  /\ pairRateValue \in RateKnobs
  /\ spawnAccumulator = 0
  /\ inflight = <<>>
  /\ op = NoOp
  /\ AtRest

\* fetchSpawnRate(BH_Mass_solar, rateUI) with useAPI false (main.js:893-907):
\* the result is kept with the mass and the knob it was computed for
CallFetchSpawnRate ==
  /\ pc = "rate"
  /\ ~useAPI
  /\ Len(inflight) < MaxRateCalls
  /\ inflight' = Append(inflight,
                        [stage |-> "rate", dt |-> 0, t |-> now, ui |-> pairRateValue,
                         mass |-> BH_Mass_solar,
                         rate |-> SpawnRate(BH_Mass_solar, pairRateValue),
                         tempK |-> <<"K", 0>>, net |-> FALSE])
  /\ op' = Op("fetchSpawnRate", <<>>)
  /\ UNCHANGED <<pc, MAX_PARTICLES, StoreVars, needsBufferUpdate, spawnAccumulator,
                 BH_Mass_solar, bhScale, scaleJobs, useAPI,
                 useQuantumPairGeneration, lastSpawnTime, now, frameQueue, events>>
  /\ UNCHANGED <<EvapVars, KnobVars>>

\* BH_Mass_solar = parseFloat(massSlider.value) (main.js:1441)
MoveMassSlider(m) ==
  /\ pc = "rate"
  /\ Len(inflight) < MaxRateCalls
  /\ m # BH_Mass_solar
  /\ BH_Mass_solar' = m
  /\ op' = Op("setMass", <<>>)
  /\ UNCHANGED <<pc, MAX_PARTICLES, StoreVars, needsBufferUpdate, spawnAccumulator,
                 bhScale, scaleJobs, useAPI, useQuantumPairGeneration,
                 lastSpawnTime, now, inflight, frameQueue, events>>
  /\ UNCHANGED <<EvapVars, KnobVars>>

NextRate ==
  \/ CallFetchSpawnRate
  \/ \E m \in MassGrid : MoveMassSlider(m)

SpecRate == InitRate /\ [][NextRate]_vars

Computed == {inflight[i] : i \in 1 .. Len(inflight)}

\* C10 as stated: for one knob and masses m1 < m2 anywhere on the slider,
\* rate(m1) > rate(m2).
C10_StrictEverywhere ==
  pc = "rate" =>
    \A a \in Computed, b \in Computed :
      (a.ui = b.ui /\ a.mass < b.mass) => a.rate > b.rate

\* C10: for one knob and masses m1 < m2, rate(m1) >= rate(m2), and
\* rate(m1) > rate(m2) when m1 is below 10 solar masses; from 10 solar masses
\* up the rate is constant.
C10_RateMonotone ==
  pc = "rate" =>
    \A a \in Computed, b \in Computed :
      (a.ui = b.ui /\ a.mass < b.mass) =>
        /\ a.rate >= b.rate
        /\ a.mass < 10 * MASS_ONE => a.rate > b.rate
        /\ a.mass >= 10 * MASS_ONE => a.rate = b.rate

\* the rates of 5 and of 9 solar masses have been computed
C10_Witness ==
  /\ pc = "rate"
  /\ \E a \in Computed, b \in Computed :
       a.mass = 50000 /\ b.mass = 90000 /\ a.rate > b.rate /\ b.rate > 0

-----------------------------------------------------------------------------
(* spawnParticlePair called directly on two free slots *)

\* values of each species control, 1/100: 0, 0.3 and 0.7
WeightValues == {0, 30, 70}
SpeciesWeights == {<<a, b, c>> : a \in WeightValues, b \in WeightValues, c \in WeightValues}

\* the draw u, 1/100: the ends of [0, 1) and both sides of the thresholds the
\* weights above give
SpeciesDraws == {0, 10, 29, 30, 42, 43, 50, 69, 70, 99}

\* temperatures the callers pass: the Hawking temperature of 10 and of 1
\* solar masses
TestTemps == {<<"H", 100000>>, <<"H", 10000>>}

\* op.pre holds the controls and the draws of the call: the weights w and
\* the Math.random outcomes d
InitEmission ==
  /\ pc = "emission"
  /\ MAX_PARTICLES = 2
  /\ positions = allocBuffers(2).positions
  /\ velocities = allocBuffers(2).velocities
  /\ lifetimes = allocBuffers(2).lifetimes
  /\ ages = allocBuffers(2).ages
  /\ temps = allocBuffers(2).temps
  /\ species = allocBuffers(2).species
  /\ bhScale = ScaleOf(100000)
  /\ BH_Mass_solar = 100000
  /\ pairRateValue = 10
  /\ spawnAccumulator = 0
  /\ inflight = <<>>
  /\ \E w \in SpeciesWeights, u \in SpeciesDraws, d \in Draws :
       op = [name |-> "none", pairs |-> <<>>, k |-> 0, dt |-> 0,
             pre |-> [w |-> w, d |-> [d EXCEPT !.u = u]]]
  /\ AtRest

\* spawnParticlePair(0, 1, tempK) (main.js:974-1062)
CallSpawnParticlePair(tempK) ==
  /\ pc = "emission"
  /\ pc' = "emitted"
  /\ SetStore(spawnParticlePair(Store, 0, 1, tempK, bhScale, op.pre.w, op.pre.d))
  /\ op' = [name |-> "spawnParticlePair",
            pairs |-> <<<<0, 1, CallOk(Store, MAX_PARTICLES, 0, 1)>>>>,
            k |-> 0, dt |-> 0,
            pre |-> [w |-> op.pre.w, d |-> op.pre.d, tempK |-> tempK]]
  /\ UNCHANGED <<MAX_PARTICLES, needsBufferUpdate, spawnAccumulator, BH_Mass_solar,
                 bhScale, scaleJobs, useAPI, useQuantumPairGeneration,
                 lastSpawnTime, now, inflight, frameQueue, events>>
  /\ UNCHANGED <<EvapVars, KnobVars>>

NextEmission == \E tempK \in TestTemps : CallSpawnParticlePair(tempK)

SpecEmission == InitEmission /\ [][NextEmission]_vars

Emitted == pc = "emitted" /\ op.name = "spawnParticlePair"

\* the weights of the call and their sum
WeightSum == op.pre.w[1] + op.pre.w[2] + op.pre.w[3]

\* C11: with s = a + b + c > 0 the species written is 0 if u < a/s, 1 if
\* a/s <= u < (a+b)/s and 2 otherwise, so that a species of weight 0 is never
\* chosen; with all weights 0 the species is 0.
C11_SpeciesChoice ==
  Emitted =>
    LET a == op.pre.w[1]
        b == op.pre.w[2]
        s == WeightSum
        u == op.pre.d.u
        sp == species[0]
    IN /\ sp \in {0, 1, 2}
       /\ s > 0 => /\ (sp = 0) = (u * s < 100 * a)
                   /\ (sp = 1) = (100 * a <= u * s /\ u * s < 100 * (a + b))
                   /\ (sp = 2) = (100 * (a + b) <= u * s)
                   /\ op.pre.w[sp + 1] > 0
       /\ s = 0 => sp = 0

\* weights 0.3, 0, 0.7 and a draw at the first threshold: species 2 is
\* written, species 1 of weight 0 is passed over
C11_Witness ==
  /\ Emitted
  /\ op.pre.w = <<30, 0, 70>>
  /\ op.pre.d.u = 30
  /\ species[0] = 2

\* C12: right after spawnParticlePair(i1, i2, T) the two slots hold the same
\* position, the same species and the temperature T, both have age 0, and
\* the inward slot's lifetime is 0.3 times the outward slot's (to the
\* millisecond, the unit of the model).
C12_PairShares ==
  Emitted =>
    /\ positions[0] = positions[1]
    /\ species[0] = species[1]
    /\ temps[0] = op.pre.tempK /\ temps[1] = op.pre.tempK
    /\ ages[0] = 0 /\ ages[1] = 0
    /\ lifetimes[1] > 0
    /\ 10 * lifetimes[0] <= 3 * lifetimes[1]
    /\ 3 * lifetimes[1] < 10 * lifetimes[0] + 10

\* a neutrino pair of high energy at one solar mass: the outward particle
\* lives 1.6 times the base lifetime, the inward one 0.3 of that
C12_Witness ==
  /\ Emitted
  /\ species[1] = 1
  /\ op.pre.d.x = 11052
  /\ op.pre.tempK = <<"H", 10000>>
  /\ positions[0] # SENTINEL3
  /\ lifetimes[0] < lifetimes[1]
  /\ velocities[0] # velocities[1]

-----------------------------------------------------------------------------
(* Reset, reallocation and the controls *)

\* slot i as allocBuffers and the reset handler leave it
IsCleared(st, i) ==
  /\ st.positions[i] = SENTINEL3
  /\ st.velocities[i] = ZERO3
  /\ st.lifetimes[i] = 0
  /\ st.ages[i] >= st.lifetimes[i]
  /\ st.temps[i] = <<"K", 0>>
  /\ st.species[i] = 0

\* C13: a reset leaves every slot free with sentinel position, zero velocity,
\* lifetime 0 and zero species and temperature, whatever the store held; a
\* reset that directly follows a reset leaves the store as it found it.
C13_ResetStep ==
  op'.name = "reset" =>
    /\ \A i \in DOMAIN ages' :
         /\ positions'[i] = SENTINEL3
         /\ velocities'[i] = ZERO3
         /\ lifetimes'[i] = 0
         /\ ages'[i] >= lifetimes'[i]
         /\ temps'[i] = <<"K", 0>>
         /\ species'[i] = 0
    /\ DOMAIN ages' = DOMAIN ages
    /\ needsBufferUpdate'
    /\ op.name = "reset" => UNCHANGED <<StoreVars, needsBufferUpdate>>

C13_Reset == [][C13_ResetStep]_vars

\* the second of two resets in a row, the first of which found the particles
\* of initializeParticles live
C13_Witness ==
  /\ op.name = "reset"
  /\ op.pre.name = "reset"
  /\ now = 0
  /\ \A i \in Indices : IsCleared(Store, i)

\* C14: a tick that finds the capacity control different from MAX_PARTICLES
\* leaves a store of the control's N slots, MAX_PARTICLES = N, every slot
\* free and as allocBuffers writes it, however many were live before.
C14_ReallocStep ==
  (op'.name \in {"tick", "tick+alloc"} /\ maxParticlesValue # MAX_PARTICLES) =>
    /\ op'.name = "tick+alloc"
    /\ MAX_PARTICLES' = maxParticlesValue
    /\ DOMAIN ages' = 0 .. (maxParticlesValue - 1)
    /\ DOMAIN positions' = DOMAIN ages' /\ DOMAIN velocities' = DOMAIN ages'
    /\ DOMAIN lifetimes' = DOMAIN ages' /\ DOMAIN temps' = DOMAIN ages'
    /\ DOMAIN species' = DOMAIN ages'
    /\ \A i \in DOMAIN ages' :
         /\ positions'[i] = SENTINEL3
         /\ velocities'[i] = ZERO3
         /\ lifetimes'[i] = 0
         /\ ages'[i] >= lifetimes'[i]
         /\ temps'[i] = <<"K", 0>>
         /\ species'[i] = 0

C14_Realloc == [][C14_ReallocStep]_vars

\* a tick has reallocated a store in which every slot was live
C14_Witness ==
  /\ op.name = "tick+alloc"
  /\ op.pre.live = MaxCap
  /\ MAX_PARTICLES = MaxCap - 1
  /\ FreeCount = MAX_PARTICLES
  /\ LiveCount = 0

-----------------------------------------------------------------------------
(* The controls holding values outside their valid range *)

\* values of the capacity control: "0", and a valid one
BoundaryCapacities == {0, MaxCap}

\* values of the mass slider: 0, and a valid one
BoundaryMasses == {0, 110000}

NextBoundary ==
  \/ \E ok \in BOOLEAN, ds \in DrawSeqs(MaxPairs) : InitializeParticles(ok, ds)
  \/ \E delta \in Deltas : Tick(delta)
  \/ \E i \in 1 .. Len(inflight), parts \in OracleResponses, ds \in DrawSeqs(MaxPairs) :
       PairsResponse(i, parts, ds)
  \/ \E i \in 1 .. Len(inflight), ok \in BOOLEAN : RateResponse(i, ok)
  \/ \E i \in 1 .. Len(inflight), ok \in {TRUE}, smooth \in BOOLEAN,
        ds \in DrawSeqs(MaxPairs) : MetricsResponse(i, ok, smooth, ds)
  \/ \E j \in scaleJobs, ok \in {TRUE} : ScaleResponse(j, ok)
  \/ \E v \in BoundaryCapacities : SetCapacity(v)
  \/ \E m \in BoundaryMasses : SetMass(m)

SpecBoundary == Init /\ [][NextBoundary]_vars

\* C15 as stated: a tick that finds the capacity control or the mass
\* non-positive reallocates nothing, starts no spawn and integrates nothing,
\* and the store is never given length zero.
C15_InvalidStep ==
  (op'.name \in {"tick", "tick+alloc"} /\ (maxParticlesValue <= 0 \/ BH_Mass_solar <= 0)) =>
    /\ MAX_PARTICLES' = MAX_PARTICLES
    /\ UNCHANGED StoreVars
    /\ inflight' = inflight

C15_InvalidRejected == [][C15_InvalidStep]_vars

\* what the code does: a tick has taken the capacity 0 to allocBuffers and
\* started a spawn on the store of length zero
C15_Witness ==
  /\ op.name = "tick+alloc"
  /\ MAX_PARTICLES = 0
  /\ DOMAIN ages = {}
  /\ Len(inflight) > 0

-----------------------------------------------------------------------------
(* Evaporation from a small mass *)

\* values of the mass control: 0.2 and 0.0012 solar masses
EvaporationMasses == {2000, 12}

\* the mass control was moved to a small value before the first frame
InitEvaporation ==
  /\ pc = "setup"
  /\ MAX_PARTICLES = MaxCap
  /\ maxParticlesValue = MAX_PARTICLES
  /\ positions = allocBuffers(MAX_PARTICLES).positions
  /\ velocities = allocBuffers(MAX_PARTICLES).velocities
  /\ lifetimes = allocBuffers(MAX_PARTICLES).lifetimes
  /\ ages = allocBuffers(MAX_PARTICLES).ages
  /\ temps = allocBuffers(MAX_PARTICLES).temps
  /\ species = allocBuffers(MAX_PARTICLES).species
  /\ needsBufferUpdate = FALSE
  /\ spawnAccumulator = 0
  /\ paused = FALSE
  /\ BH_Mass_solar \in EvaporationMasses
  /\ bhScale = ScaleOf(BH_Mass_solar)
  /\ scaleJobs = {}
  /\ pairRateValue = 10
  /\ useAPI = TRUE
  /\ useQuantumPairGeneration = TRUE
  /\ lastSpawnTime = -1
  /\ now = 0
  /\ inflight = <<>>
  /\ isEvaporating = FALSE
  /\ isInstantEvaporating = FALSE
  /\ lastEvaporationTime = 0
  /\ rafQueue = <<>>
  /\ frameQueue = <<>>
  /\ events = 0
  /\ op = NoOp

NextEvaporation ==
  \/ \E ok \in BOOLEAN, ds \in DrawSeqs(MaxPairs) : InitializeParticles(ok, ds)
  \/ \E delta \in Deltas : Tick(delta)
  \/ \E i \in 1 .. Len(inflight), parts \in OracleResponses, ds \in DrawSeqs(MaxPairs) :
       PairsResponse(i, parts, ds)
  \/ \E i \in 1 .. Len(inflight), ok \in BOOLEAN : RateResponse(i, ok)
  \/ \E i \in 1 .. Len(inflight), ok \in {TRUE}, smooth \in BOOLEAN,
        ds \in DrawSeqs(MaxPairs) : MetricsResponse(i, ok, smooth, ds)
  \/ \E j \in scaleJobs, ok \in {TRUE} : ScaleResponse(j, ok)
  \/ \E m \in EvaporationMasses : SetMass(m)
  \/ ClickReset
  \/ \E ds \in DrawSeqs(MaxPairs) : ClickEvaporate(ds)
  \/ \E ds \in DrawSeqs(MaxPairs) : ClickStopEvaporate(ds)
  \/ \E ds \in DrawSeqs(MaxPairs) : EvaporationLoop(ds)
  \/ \E ds \in DrawSeqs(MaxPairs), ds2 \in DrawSeqs(MaxPairs) : ClickInstantEvaporate(ds, ds2)
  \/ \E ds \in DrawSeqs(MaxPairs), ds2 \in DrawSeqs(MaxPairs) : InstantEvaporationLoop(ds, ds2)

SpecEvaporation == InitEvaporation /\ [][NextEvaporation]_vars

\* the steps whose spawner reads the mass for a temperature
MassReaders ==
  {"spawnAdditionalParticles", "spawnMassiveParticles", "finishInstantEvaporation"}

\* C16: wherever the mass is read for a temperature or a spawn rate of a
\* spawn (by spawnParticles at its start and at its local rate and
\* temperature, by spawnAdditionalParticles, by spawnMassiveParticles), the
\* mass read is strictly positive
C16_MassPositiveAtReads ==
  /\ op.name \in MassReaders => op.pre.mass > 0
  /\ \A i \in 1 .. Len(inflight) :
       /\ inflight[i].mass > 0
       /\ inflight[i].tempK[1] = "H" => inflight[i].tempK[2] > 0

\* the last step of an instant evaporation: spawnMassiveParticles took its
\* temperature from a mass below zero and wrote a pair with it, before the
\* mass was set to 0.001
C16_Witness ==
  /\ op.name = "finishInstantEvaporation"
  /\ op.pre.mass < 0
  /\ BH_Mass_solar = MASS_DONE
  /\ \E i \in Indices : IsLive(Store, i) /\ temps[i] = <<"H", op.pre.mass>>

-----------------------------------------------------------------------------
(* Remote calls that fail *)

\* frames, the three responses of spawnParticles with every outcome, the
\* rate knob and the reset button
NextFailure ==
  \/ \E ok \in BOOLEAN, ds \in DrawSeqs(MaxPairs) : InitializeParticles(ok, ds)
  \/ \E delta \in Deltas : Tick(delta)
  \/ \E i \in 1 .. Len(inflight), parts \in OracleResponses, ds \in DrawSeqs(MaxPairs) :
       PairsResponse(i, parts, ds)
  \/ \E i \in 1 .. Len(inflight), ok \in BOOLEAN : RateResponse(i, ok)
  \/ \E i \in 1 .. Len(inflight), ok \in BOOLEAN, smooth \in BOOLEAN,
        ds \in DrawSeqs(MaxPairs) : MetricsResponse(i, ok, smooth, ds)
  \/ ClickReset
  \/ \E v \in PairRates : SetPairRate(v)

SpecFailure == Init /\ [][NextFailure]_vars

\* the step is a response that failed or carried no particles
FailedResponse ==
  /\ op'.name \in {"oracleSpawn", "rateResponse", "localSpawn"}
  /\ op'.pre.failed

\* slots outside the pairs of the step keep their data
OnlyPairsWritten ==
  \A j \in Indices :
    (\A q \in 1 .. Len(op'.pairs) : j # op'.pairs[q][1] /\ j # op'.pairs[q][2])
      => /\ positions'[j] = positions[j] /\ velocities'[j] = velocities[j]
         /\ ages'[j] = ages[j] /\ lifetimes'[j] = lifetimes[j]
         /\ temps'[j] = temps[j] /\ species'[j] = species[j]

C17_FailureStep ==
  FailedResponse =>
    \E i \in 1 .. Len(inflight) :
      LET e == inflight[i]
      IN \/ /\ op'.name = "oracleSpawn"
            /\ e.stage = "pairs"
            /\ UNCHANGED <<StoreVars, needsBufferUpdate, MAX_PARTICLES>>
            /\ Len(inflight') = Len(inflight)
            /\ inflight'[i].stage = "rate"
            /\ inflight'[i].rate = SpawnRate(BH_Mass_solar, e.ui)
         \/ /\ op'.name = "rateResponse"
            /\ e.stage = "rate"
            /\ UNCHANGED <<StoreVars, needsBufferUpdate, MAX_PARTICLES>>
            /\ ~useAPI'
            /\ Len(inflight') = Len(inflight)
            /\ inflight'[i].stage = "metrics"
            /\ inflight'[i].rate = e.rate
            /\ inflight'[i].tempK = <<"H", BH_Mass_solar>>
         \/ /\ op'.name = "localSpawn"
            /\ e.stage = "metrics"
            /\ ~useAPI'
            /\ inflight' = RemoveAt(inflight, i)
            /\ \/ spawnAccumulator' + op'.k * ACC_ONE
                    = spawnAccumulator + RateTimesDt(e.rate, e.dt)
               \/ op'.k = 1 /\ spawnAccumulator' = 0 /\ e.rate > 0
            /\ OnlyPairsWritten
            /\ \A q \in 1 .. Len(op'.pairs) :
                 /\ IsFree(Store, op'.pairs[q][1]) /\ IsFree(Store, op'.pairs[q][2])
                 /\ temps'[op'.pairs[q][1]] = e.tempK /\ e.tempK[1] = "H"

-----------------------------------------------------------------------------
(* The frame and the requests in flight *)

TickStep == op'.name \in {"tick", "tick+alloc"}

C18_TickStep ==
  (TickStep /\ ~paused) =>
    /\ Len(inflight') = Len(inflight) + 1
    /\ \A i \in 1 .. Len(inflight) : inflight'[i] = inflight[i]
    /\ op'.pre.flushed /\ ~needsBufferUpdate'
    /\ MAX_PARTICLES' = MAX_PARTICLES =>
         \A i \in Indices :
           (IsLive(Store, i) /\ ~OutOfRange(positions[i]))
             => \/ ages'[i] > ages[i]
                \/ ages'[i] >= lifetimes'[i]

\* C18: in every tick that is not paused the integration runs over the live
\* slots and the buffer update completes in the same step, whatever requests
\* are outstanding; the tick starts its own request and waits for none, and
\* the outstanding ones are left as they are
C18_TickNeverWaits == [][C18_TickStep]_vars

\* a frame ran with a request of an earlier frame still unanswered
C18_Witness ==
  /\ op.name = "tick"
  /\ ~paused
  /\ Len(inflight) = MaxInFlight
  /\ \A i \in 1 .. Len(inflight) : inflight[i].net
  /\ LiveCount > 0
  /\ op.pre.flushed

-----------------------------------------------------------------------------
(* Pause *)

\* a slot that was free is live after the step
BecomesLive(i) == IsFree(Store, i) /\ ages'[i] < lifetimes'[i]

C19_PausedStep ==
  (paused /\ paused') =>
    \A i \in Indices : i \in DOMAIN ages' => ~BecomesLive(i)

\* C19: from the pause to the resume no slot becomes live: no spawn started
\* before the pause completes after it and no other loop spawns meanwhile
C19_NoSpawnWhilePaused == [][C19_PausedStep]_vars

\* a pair-generation response arrived during the pause and its pairs were
\* written
C19_Witness ==
  /\ paused
  /\ op.name = "oracleSpawn"
  /\ Len(op.pairs) > 0
  /\ \A q \in 1 .. Len(op.pairs) : IsLive(Store, op.pairs[q][1])

-----------------------------------------------------------------------------
(* The buffer flag *)

\* the step wrote a particle array or replaced the arrays
ArraysChanged == StoreVars' # StoreVars \/ MAX_PARTICLES' # MAX_PARTICLES

C20_FlagStep ==
  /\ (~TickStep /\ ArraysChanged) => needsBufferUpdate'
  /\ (needsBufferUpdate /\ ~needsBufferUpdate') => (TickStep /\ op'.pre.flushed)
  /\ (TickStep /\ (needsBufferUpdate \/ ArraysChanged))
       => (op'.pre.flushed /\ ~needsBufferUpdate')

\* C20: every step outside the tick that changes a particle array leaves
\* needsBufferUpdate raised; only a tick lowers the flag, and only by
\* marking the attributes; a tick that finds the flag raised or changes the
\* arrays itself marks the attributes before its render.  So at the end of
\* every tick no change made since the last marking is unmarked
C20_MarkedBeforeRender == [][C20_FlagStep]_vars

\* a paused frame marked the attributes because a spawn had completed since
\* the last frame that was not paused
C20_Witness ==
  /\ op.name = "tick"
  /\ paused
  /\ op.pre.flushed
  /\ ~needsBufferUpdate
  /\ events = 1
  /\ lastSpawnTime > 0
  /\ LiveCount > 0

-----------------------------------------------------------------------------
(* The horizon *)

\* the distance of slot i from the origin exceeds the horizon radius
BeyondHorizon(i) ==
  IsFar(positions[i]) \/ Norm2(positions[i]) > bhScale * bhScale

\* C21: once the frames run, every live particle is farther from the origin
\* than the current horizon radius bhMesh.scale.x
C21_LiveOutsideHorizon ==
  pc = "run" => \A i \in Indices : IsLive(Store, i) => BeyondHorizon(i)

\* updateBHScale has just grown the horizon over a live particle
C21_Witness ==
  /\ op.name = "updateBHScale"
  /\ bhScale = ScaleOf(110000)
  /\ \E i \in Indices : IsLive(Store, i) /\ ~BeyondHorizon(i)

-----------------------------------------------------------------------------
(* The end of the normal evaporation *)

\* the step is a pass of evaporationLoop beyond its isEvaporating test
EvaporationPass ==
  op'.name \in {"spawnAdditionalParticles", "createExplosionEffect"}

C22_CompletionStep ==
  (EvaporationPass /\ BH_Mass_solar' <= MASS_DONE) =>
    /\ op'.name = "createExplosionEffect"
    /\ ~isEvaporating'
    /\ rafQueue' = rafQueue
    /\ scaleJobs' = scaleJobs
    /\ needsBufferUpdate'
    /\ Cardinality({i \in Indices : ages'[i] >= lifetimes'[i]}) <= 1
    /\ \A q \in 1 .. Len(op'.pairs) :
         \A j \in {op'.pairs[q][1], op'.pairs[q][2]} :
           /\ IsFree(Store, j)
           /\ ages'[j] = 0 /\ lifetimes'[j] = 10000
           /\ temps'[j] = <<"K", 10>>

\* C22: a pass of the normal evaporation loop that brings the mass to 0.001
\* solar masses or below clears isEvaporating in the same step, runs the
\* explosion effect over the free slots (every free pair of slots is filled,
\* lifetime 10 s) and registers no further frame callback
C22_CompletionStops == [][C22_CompletionStep]_vars

\* the loop's frame callback brought the mass below 0.001 and the explosion
\* wrote a pair
C22_Witness ==
  /\ op.name = "createExplosionEffect"
  /\ now > 0
  /\ BH_Mass_solar < MASS_DONE
  /\ ~isEvaporating
  /\ rafQueue = <<>>
  /\ Len(op.pairs) > 0

-----------------------------------------------------------------------------
(* The order of spawn, integration and buffer update in a frame *)

C23_OrderStep ==
  (TickStep /\ ~paused) =>
    \A i \in 1 .. Len(inflight') :
      \E j \in 1 .. Len(inflight) : inflight'[i] = inflight[j]

\* C23: in a tick that is not paused the pairs of that tick are written
\* before its integration and its buffer update: when the tick step ends no
\* spawnParticles invocation of that tick is left with its pairs unwritten
C23_SpawnThenIntegrate == [][C23_OrderStep]_vars

\* the pairs of the frame at now were written after that frame's integration
\* and buffer update: they have age 0 and the flag is raised again
C23_Witness ==
  /\ op.name = "oracleSpawn"
  /\ Len(op.pairs) > 0
  /\ lastSpawnTime = now
  /\ needsBufferUpdate
  /\ \A q \in 1 .. Len(op.pairs) :
       ages[op.pairs[q][1]] = 0 /\ ages[op.pairs[q][2]] = 0

-----------------------------------------------------------------------------
(* The accumulator call by call *)

\* the pairs the step requested
AccRequestedNow == op'.k - op.k

C24_AccStep ==
  /\ 0 <= spawnAccumulator' /\ spawnAccumulator' < ACC_ONE
  /\ op'.pre = op.pre =>
       AccRequestedNow * ACC_ONE + spawnAccumulator' = spawnAccumulator + AccStep
  /\ op'.pre # op.pre =>
       /\ AccRequestedNow = 1 /\ spawnAccumulator' = 0
       /\ AccStep > 0 /\ spawnAccumulator + AccStep < ACC_ONE
  /\ AccRequested' + spawnAccumulator' >= AccExpected'

\* C24: after every call of the accumulator step with rate >= 0 and dt >= 0
\* the accumulator is in [0, 1); a call that does not take the smoothing
\* branch requests pairs and leaves an accumulator that together equal the
\* accumulator before plus rate * dt; a call that takes it requests one pair
\* where the rate gave less; over the whole run the pairs requested plus the
\* accumulator are at least the sum of rate * dt
C24_AccumulatorBalance == [][C24_AccStep]_vars

\* at rate * dt = 0.8 the second call requested one pair and kept 0.6
C24_Witness ==
  /\ pc = "accumulator"
  /\ op.name = "accumulate"
  /\ op.dt = 16 /\ now = 32
  /\ op.pre = 0
  /\ op.k = 1
  /\ spawnAccumulator = 6000

-----------------------------------------------------------------------------
(* The step of one updateParticles call *)

\* min(dt, 0.05) of the call
ClampedStep == Min(op.dt, DT_CLAMP)

\* C25: a live particle that updateParticles processes and leaves live has
\* aged by exactly min(dt, 0.05) and has moved by its new velocity times that
\* same step, whatever dt was; one that the call retires has its age set to
\* its lifetime and its position to the sentinel
C25_ClampedEverywhere ==
  \A i \in DOMAIN ages :
    WasStepped(i) =>
      \/ /\ ages[i] < lifetimes[i]
         /\ ages[i] = op.pre.ages[i] + ClampedStep
         /\ positions[i] = Add(op.pre.positions[i],
                               Scale(velocities[i], ClampedStep, 1000))
      \/ /\ ages[i] = lifetimes[i]
         /\ positions[i] = SENTINEL3
         /\ \/ op.pre.ages[i] + ClampedStep >= lifetimes[i]
            \/ Norm2(op.pre.positions[i]) < 4 * bhScale * bhScale

\* a call with dt above the clamp aged a fast photon by 0.05 s, pulled it
\* inward by 0.05 s of the acceleration and moved it by 0.05 s of its velocity
C25_Witness ==
  /\ WasStepped(0)
  /\ op.dt = 130
  /\ op.pre.ages[0] = 0 /\ ages[0] = DT_CLAMP
  /\ op.pre.positions[0] = <<300, 0, 0>>
  /\ op.pre.velocities[0] = <<0, 1500, 0>>
  /\ species[0] = 0
  /\ velocities[0] = <<-1, 1497, 0>>
  /\ positions[0] = <<300, 74, 0>>

-----------------------------------------------------------------------------
(* Requests to the pair-generation API *)

\* the invocations waiting for a pair-generation response
PairRequests == {i \in 1 .. Len(inflight) : inflight[i].stage = "pairs"}

\* C26: pair-generation requests are at least MIN_SPAWN_INTERVAL apart, so
\* that no two of them are outstanding together
C26_OneRequestPerInterval ==
  \A i \in PairRequests : \A j \in PairRequests : i = j

\* the requests of the first two frames, 60 ms apart, are both outstanding;
\* no response has arrived yet, so neither was answered from the cache
C26_Witness ==
  /\ Len(inflight) = 2
  /\ PairRequests = {1, 2}
  /\ inflight[1].t = 60 /\ inflight[2].t = 120
  /\ inflight[2].t - inflight[1].t < MIN_SPAWN_INTERVAL
  /\ lastSpawnTime = -1

-----------------------------------------------------------------------------
(* The result caches of fetchBlackHoleMetrics and fetchSpawnRate *)

MaxCacheTime == 150       \* calls are made up to this time, ms

CacheMasses == {100000, 110000}
CacheKnobs == {10, 100}
CacheWaits == {30, 50}    \* time between two calls, ms

\* a cache that holds nothing (null)
NoCache == [set |-> FALSE, mass |-> 0, ui |-> 0, at |-> 0]

\* op.pre holds the three variables of main.js:14-16, metricsCache,
\* spawnRateCache and cacheTime, each cached result with the key it was
\* stored for and, in at, the time it was stored; asked is the key of the
\* last call and got the result it returned; op.k is 1 when the result came
\* from the cache
InitCache ==
  /\ pc = "cache"
  /\ MAX_PARTICLES = 1
  /\ positions = allocBuffers(1).positions
  /\ velocities = allocBuffers(1).velocities
  /\ lifetimes = allocBuffers(1).lifetimes
  /\ ages = allocBuffers(1).ages
  /\ temps = allocBuffers(1).temps
  /\ species = allocBuffers(1).species
  /\ bhScale = ScaleOf(100000)
  /\ BH_Mass_solar = 100000
  /\ pairRateValue = 10
  /\ spawnAccumulator = 0
  /\ inflight = <<>>
  /\ op = [name |-> "none", pairs |-> <<>>, k |-> 0, dt |-> 0,
           pre |-> [metricsCache |-> NoCache, spawnRateCache |-> NoCache,
                    cacheTime |-> 0, asked |-> NoCache, got |-> NoCache]]
  /\ AtRest

\* time passes between two calls
Elapse(d) ==
  /\ pc = "cache"
  /\ now + d <= MaxCacheTime
  /\ now' = now + d
  /\ UNCHANGED <<pc, MAX_PARTICLES, StoreVars, needsBufferUpdate, spawnAccumulator,
                 BH_Mass_solar, bhScale, scaleJobs, useAPI,
                 useQuantumPairGeneration, lastSpawnTime, inflight, frameQueue,
                 events, op>>
  /\ UNCHANGED <<EvapVars, KnobVars>>

\* fetchBlackHoleMetrics(massSolar) with useAPI false (main.js:841-862)
CachedFetchBlackHoleMetrics(massSolar) ==
  /\ pc = "cache"
  /\ ~useAPI
  /\ LET c == op.pre.metricsCache
         hit == c.set /\ c.mass = massSolar
                /\ now - op.pre.cacheTime < CACHE_DURATION
         result == [set |-> TRUE, mass |-> massSolar, ui |-> 0, at |-> now]
     IN op' = [name |-> "fetchBlackHoleMetrics", pairs |-> <<>>,
               k |-> IF hit THEN 1 ELSE 0, dt |-> 0,
               pre |-> [metricsCache |-> IF hit THEN c ELSE result,
                        spawnRateCache |-> op.pre.spawnRateCache,
                        cacheTime |-> IF hit THEN op.pre.cacheTime ELSE now,
                        asked |-> [result EXCEPT !.at = 0],
                        got |-> IF hit THEN c ELSE result]]
  /\ UNCHANGED <<pc, MAX_PARTICLES, StoreVars, needsBufferUpdate, spawnAccumulator,
                 BH_Mass_solar, bhScale, scaleJobs, useAPI,
                 useQuantumPairGeneration, lastSpawnTime, now, inflight,
                 frameQueue, events>>
  /\ UNCHANGED <<EvapVars, KnobVars>>

\* fetchSpawnRate(massSolar, pairRateUI) with useAPI false (main.js:884-907)
CachedFetchSpawnRate(massSolar, pairRateUI) ==
  /\ pc = "cache"
  /\ ~useAPI
  /\ LET c == op.pre.spawnRateCache
         hit == c.set /\ c.mass = massSolar /\ c.ui = pairRateUI
                /\ now - op.pre.cacheTime < CACHE_DURATION
         result == [set |-> TRUE, mass |-> massSolar, ui |-> pairRateUI, at |-> now]
     IN op' = [name |-> "fetchSpawnRate", pairs |-> <<>>,
               k |-> IF hit THEN 1 ELSE 0, dt |-> 0,
               pre |-> [metricsCache |-> op.pre.metricsCache,
                        spawnRateCache |-> IF hit THEN c ELSE result,
                        cacheTime |-> IF hit THEN op.pre.cacheTime ELSE now,
                        asked |-> [result EXCEPT !.at = 0],
                        got |-> IF hit THEN c ELSE result]]
  /\ UNCHANGED <<pc, MAX_PARTICLES, StoreVars, needsBufferUpdate, spawnAccumulator,
                 BH_Mass_solar, bhScale, scaleJobs, useAPI,
                 useQuantumPairGeneration, lastSpawnTime, now, inflight,
                 frameQueue, events>>
  /\ UNCHANGED <<EvapVars, KnobVars>>

NextCache ==
  \/ \E d \in CacheWaits : Elapse(d)
  \/ \E m \in CacheMasses : CachedFetchBlackHoleMetrics(m)
  \/ \E m \in CacheMasses, ui \in CacheKnobs : CachedFetchSpawnRate(m, ui)

SpecCache == InitCache /\ [][NextCache]_vars

\* the last call returned a result from its cache
FromCache == op.name \in {"fetchBlackHoleMetrics", "fetchSpawnRate"} /\ op.k = 1

\* C27: a result returned from the cache was stored for the key of the call
\* and less than CACHE_DURATION before the call
C27_CachedIsFresh ==
  FromCache =>
    /\ op.pre.got.mass = op.pre.asked.mass
    /\ op.pre.got.ui = op.pre.asked.ui
    /\ now - op.pre.got.at < CACHE_DURATION

\* fetchBlackHoleMetrics returned a result stored 130 ms before, because a
\* fetchSpawnRate call in between had set cacheTime again
C27_Witness ==
  /\ FromCache
  /\ op.name = "fetchBlackHoleMetrics"
  /\ now - op.pre.got.at > CACHE_DURATION
  /\ now - op.pre.cacheTime < CACHE_DURATION
  /\ op.pre.spawnRateCache.at = op.pre.cacheTime

-----------------------------------------------------------------------------
(* The two evaporations *)

\* C28: in every state reachable by clicks on the evaporate, stop and
\* instant-evaporate buttons, isEvaporating and isInstantEvaporating are not
\* both true
C28_OneEvaporationAtATime == ~(isEvaporating /\ isInstantEvaporating)

\* the evaporate button was clicked while the instant evaporation was running:
\* both flags are set and a callback of each loop is registered
C28_Witness ==
  /\ isEvaporating /\ isInstantEvaporating
  /\ op.name = "spawnAdditionalParticles"
  /\ \E i, j \in 1 .. Len(rafQueue) :
       rafQueue[i] = "instantEvaporationLoop" /\ rafQueue[j] = "evaporationLoop"

-----------------------------------------------------------------------------
(* Stopping and restarting the normal evaporation *)

MaxClicks == 3       \* clicks on the evaporate and stop buttons in one run

\* as Init, with room for MaxClicks control events
InitRestart ==
  /\ pc = "setup"
  /\ MAX_PARTICLES = MaxCap
  /\ maxParticlesValue = MAX_PARTICLES
  /\ positions = allocBuffers(MAX_PARTICLES).positions
  /\ velocities = allocBuffers(MAX_PARTICLES).velocities
  /\ lifetimes = allocBuffers(MAX_PARTICLES).lifetimes
  /\ ages = allocBuffers(MAX_PARTICLES).ages
  /\ temps = allocBuffers(MAX_PARTICLES).temps
  /\ species = allocBuffers(MAX_PARTICLES).species
  /\ needsBufferUpdate = FALSE
  /\ spawnAccumulator = 0
  /\ paused = FALSE
  /\ BH_Mass_solar = 100000
  /\ bhScale = 100
  /\ scaleJobs = {}
  /\ pairRateValue = 10
  /\ useAPI = TRUE
  /\ useQuantumPairGeneration = TRUE
  /\ lastSpawnTime = -1
  /\ now = 0
  /\ inflight = <<>>
  /\ isEvaporating = FALSE
  /\ isInstantEvaporating = FALSE
  /\ lastEvaporationTime = 0
  /\ rafQueue = <<>>
  /\ frameQueue = <<>>
  /\ events = MaxEvents - MaxClicks
  /\ op = NoOp

NextRestart ==
  \/ \E ok \in BOOLEAN, ds \in DrawSeqs(MaxPairs) : InitializeParticles(ok, ds)
  \/ \E delta \in Deltas : Tick(delta)
  \/ \E i \in 1 .. Len(inflight), parts \in OracleResponses, ds \in DrawSeqs(MaxPairs) :
       PairsResponse(i, parts, ds)
  \/ \E i \in 1 .. Len(inflight), ok \in BOOLEAN : RateResponse(i, ok)
  \/ \E i \in 1 .. Len(inflight), ok \in {TRUE}, smooth \in BOOLEAN,
        ds \in DrawSeqs(MaxPairs) : MetricsResponse(i, ok, smooth, ds)
  \/ \E j \in scaleJobs, ok \in {TRUE} : ScaleResponse(j, ok)
  \/ \E ds \in DrawSeqs(MaxPairs) : ClickEvaporate(ds)
  \/ \E ds \in DrawSeqs(MaxPairs) : ClickStopEvaporate(ds)
  \/ \E ds \in DrawSeqs(MaxPairs) : EvaporationLoop(ds)

SpecRestart == InitRestart /\ [][NextRestart]_vars

\* the evaporationLoop callbacks in a queue
LoopCallbacks(q) == Cardinality({i \in 1 .. Len(q) : q[i] = "evaporationLoop"})

\* C29: at most one evaporationLoop callback is registered for the next
\* frame, and at most one is run in a frame, so the normal evaporation
\* decrements the mass at most once per animation frame
C29_OneLoopCallback ==
  /\ LoopCallbacks(rafQueue) <= 1
  /\ LoopCallbacks(frameQueue) <= 1

\* start, stop and start again before the next frame: the frame has run two
\* evaporationLoop callbacks, both past the isEvaporating test, and both have
\* registered themselves again
C29_Witness ==
  /\ isEvaporating
  /\ frameQueue = <<>>
  /\ LoopCallbacks(rafQueue) = 2
  /\ op.name = "spawnAdditionalParticles"
  /\ lastEvaporationTime = now /\ now > 0
  /\ BH_Mass_solar < 100000

-----------------------------------------------------------------------------
(* Repeated updateParticles calls on one particle *)

MaxAgingSteps == 21    \* updateParticles calls in one run

\* dt of the calls of a run, ms: at and above the clamp
AgingDts == {50, 130}

\* one live particle, as for SpecIntegrator; op.k counts the calls and
\* op.pre keeps the particle's lifetime
InitAging ==
  /\ pc = "aging"
  /\ MAX_PARTICLES = 1
  /\ positions \in [{0} -> TestPositions]
  /\ velocities \in [{0} -> TestVelocities]
  /\ \E a \in TestAges : ages = [i \in {0} |-> a[1]] /\ lifetimes = [i \in {0} |-> a[2]]
  /\ temps = [i \in {0} |-> <<"H", 100000>>]
  /\ species \in [{0} -> {0, 1}]
  /\ bhScale \in TestScales
  /\ BH_Mass_solar = 100000
  /\ pairRateValue = 10
  /\ spawnAccumulator = 0
  /\ inflight = <<>>
  /\ op = [NoOp EXCEPT !.pre = [lifetime |-> lifetimes[0], far |-> OutOfRange(positions[0])]]
  /\ AtRest

\* the next unpaused tick's updateParticles(dt) (main.js:1343-1416), every
\* tick of a run with the same dt
RepeatUpdateParticles(dt) ==
  /\ pc = "aging"
  /\ op.k < MaxAgingSteps
  /\ op.k > 0 => op.dt = dt
  /\ SetStore(updateParticles(Store, MAX_PARTICLES, dt, bhScale))
  /\ needsBufferUpdate' = (needsBufferUpdate \/ HasUpdates(Store, MAX_PARTICLES))
  /\ op' = [name |-> "updateParticles", pairs |-> <<>>, k |-> op.k + 1, dt |-> dt,
            pre |-> op.pre]
  /\ UNCHANGED <<pc, MAX_PARTICLES, spawnAccumulator, BH_Mass_solar, bhScale,
                 scaleJobs, useAPI, useQuantumPairGeneration, lastSpawnTime, now,
                 inflight, frameQueue, events>>
  /\ UNCHANGED <<EvapVars, KnobVars>>

NextAging == \E dt \in AgingDts : RepeatUpdateParticles(dt)

SpecAging == InitAging /\ [][NextAging]_vars

\* the least n with n * d >= L
StepsToExpire(L, d) == (L + d - 1) \div d

\* C30: a particle with lifetime L is free after at most ceil(L / dt)
\* updateParticles calls, dt being the step the call uses, whatever its
\* position and velocity
C30_FreeAfterLifetime ==
  (op.name = "updateParticles"
     /\ op.k >= StepsToExpire(op.pre.lifetime, ClampDt(op.dt)))
    => IsFree(Store, 0)

\* a particle beyond 1e5 on the x axis after more calls than its lifetime
\* takes: still live, its age, position and velocity never touched
C30_Witness ==
  /\ op.name = "updateParticles"
  /\ op.k > StepsToExpire(op.pre.lifetime, ClampDt(op.dt))
  /\ op.pre.far
  /\ IsLive(Store, 0)
  /\ ages[0] = 0
  /\ positions[0] = <<POS_LIMIT + 100, 0, 0>>

\* within the range the loop processes the bound holds
C30_InRangeFreeAfterLifetime ==
  (op.name = "updateParticles" /\ ~op.pre.far
     /\ op.k >= StepsToExpire(op.pre.lifetime, ClampDt(op.dt)))
    => IsFree(Store, 0)
====
